---- MODULE Spec2Model ----
(***************************************************************************)
(* Model of qcodes/plots/qcmatplotlib.py (MatPlot).                        *)
(*                                                                         *)
(* Numbers.  A float is a record [nan, h]: either NaN (an invalid sample,  *)
(* which masked_invalid masks) or the number h/2.  Every input sample is   *)
(* an integer v, held as h = 2*v, so that the half differences and the     *)
(* +-0.5 offsets of the grid-corner correction are exact.  Coordinates of  *)
(* bounding boxes and views are in the same half units.                    *)
(***************************************************************************)
EXTENDS Integers, Sequences, FiniteSets, TLC

VARIABLES
    shape,      \* (nrows, ncols) of the grid made by the last successful _init_plot
    figsize,    \* figsize handed to plt.subplots by the last successful _init_plot
    subplots,   \* self.subplots: the flat sequence of axes
    traces,     \* self.traces: sequence of [config, plot_object]
    title,      \* self.title.get_text(), as the set of labels it shows
    customized, \* the caller has set another title text since the last default was set
    last,       \* the last call made on the plot and how it ended
    gc_arr,     \* grid-corner correction alone: the axis array
    gc_k,       \* grid-corner correction alone: the axis number (0 = x, 1 = y)
    gc_out,     \* grid-corner correction alone: the corrected array
    cw,         \* the ClickWidget: its checkboxes, axes, tracked lines and cursors
    ev,         \* the last UI event delivered to the ClickWidget
    wr          \* a measurement wrapper (do1d, do1dDiagonal, do2d) building its static plot

vars == <<shape, figsize, subplots, traces, title, customized, last, gc_arr, gc_k, gc_out,
         cw, ev, wr>>

plotvars == <<shape, figsize, subplots, traces, title, customized, last>>

gridvars == <<gc_arr, gc_k, gc_out>>

None == "None"

----------------------------------------------------------------------------
(* Floats and arrays *)

NaN == [nan |-> TRUE, h |-> 0]

F(h) == [nan |-> FALSE, h |-> h]

Num(v) == F(2 * v)

FAdd(a, b) == IF a.nan \/ b.nan THEN NaN ELSE F(a.h + b.h)

FSub(a, b) == IF a.nan \/ b.nan THEN NaN ELSE F(a.h - b.h)

\* x / 2; every difference halved by the correction is a difference of
\* whole numbers, so h is even and the division is exact
FHalf(a) == IF a.nan THEN NaN ELSE F(a.h \div 2)

Min(S) == CHOOSE m \in S : \A n \in S : m <= n

Max(S) == CHOOSE m \in S : \A n \in S : m >= n

\* a data array: v holds the samples, row after row for a 2-D array of
\* ncols columns, with the label and unit that get_label finds on it
Arr1(v, label, unit) ==
    [ndim |-> 1, ncols |-> Len(v), v |-> v, label |-> label, unit |-> unit]

Arr2(v, ncols, label, unit) ==
    [ndim |-> 2, ncols |-> ncols, v |-> v, label |-> label, unit |-> unit]

\* the number of rows of a 2-D array
NRows(arr) == Len(arr.v) \div arr.ncols

\* the finite values (in half units) of a sequence of floats
Finite(seq) == {seq[i].h : i \in {j \in DOMAIN seq : ~seq[j].nan}}

\* np.all(getmask(masked_invalid(arg)))
AllMasked(arr) == \A i \in DOMAIN arr.v : arr.v[i].nan

\* np.nanmin / np.nanmax: NaN when no value is finite
nanmin(seq) == IF Finite(seq) = {} THEN NaN ELSE F(Min(Finite(seq)))

nanmax(seq) == IF Finite(seq) = {} THEN NaN ELSE F(Max(Finite(seq)))

----------------------------------------------------------------------------
(* Grid-corner correction: the loop body of _draw_pcolormesh, lines 322-348 *)

\* lines 325-326: arr[0] for the x axis, arr[:,0] for the y axis, of a 2-D array
AxisSlice(arr, k) ==
    IF arr.ndim > 1
    THEN IF k = 0 THEN SubSeq(arr.v, 1, arr.ncols)
                  ELSE [i \in 1..NRows(arr) |-> arr.v[(i - 1) * arr.ncols + 1]]
    ELSE arr.v

\* np.pad(arr, (before, after), mode='symmetric') for before, after in {0, 1}
PadSymmetric(a, before, after) ==
    (IF before = 1 THEN <<a[1]>> ELSE <<>>) \o a \o
    (IF after = 1 THEN <<a[Len(a)]>> ELSE <<>>)

\* arr_pad[:2] += [-0.5, 0.5]
OffsetFirstTwo(p) ==
    [i \in 1..Len(p) |->
        IF i = 1 THEN FAdd(p[1], F(-1))
        ELSE IF i = 2 THEN FAdd(p[2], F(1))
        ELSE p[i]]

\* lines 331-332
ReflectBranch(a) == OffsetFirstTwo(PadSymmetric(a, 1, 0))

ExtendFirstInward(p) == [p EXCEPT ![1] = FAdd(p[1], FSub(p[3], p[2]))]

\* arr_pad[0] += arr_pad[1] - arr_pad[2]
ExtendFirst(p) == [p EXCEPT ![1] = FAdd(p[1], FSub(p[2], p[3]))]

\* arr_pad[-1] += arr_pad[-2] - arr_pad[-3]
ExtendLast(p) ==
    [p EXCEPT ![Len(p)] = FAdd(p[Len(p)], FSub(p[Len(p) - 1], p[Len(p) - 2]))]

\* entry i of diff = np.insert(np.ma.diff(arr_pad) / 2, 0, diff[0])
HalfDiffAt(p, i) ==
    IF i = 1 THEN FHalf(FSub(p[2], p[1])) ELSE FHalf(FSub(p[i], p[i - 1]))

\* arr_pad += diff
AddHalfDiff(p) == [i \in 1..Len(p) |-> FAdd(p[i], HalfDiffAt(p, i))]

\* arr_pad = arr_pad[:-1]
DropLast(p) == SubSeq(p, 1, Len(p) - 1)

\* lines 335-347
PadBranch(a) ==
    DropLast(AddHalfDiff(ExtendLast(ExtendFirst(PadSymmetric(a, 1, 1)))))

\* which branch line 328 takes: np.ma.is_masked(arr[1])
TakesReflectBranch(a) == a[2].nan

\* lines 328-348 for the 1-D array a; arr[1] raises IndexError on an array
\* of fewer than two entries
CorrectSlice(a) ==
    IF Len(a) < 2 THEN [err |-> "IndexError", v |-> <<>>]
    ELSE IF TakesReflectBranch(a)
         THEN [err |-> "none", v |-> ReflectBranch(a)]
         ELSE [err |-> "none", v |-> PadBranch(a)]

\* one pass of the loop of line 322, for axis k
CorrectAxis(arr, k) == CorrectSlice(AxisSlice(arr, k))

----------------------------------------------------------------------------
(* Axes, artifacts and bounding boxes *)

NullBox == [finite |-> FALSE, x0 |-> 0, x1 |-> 0, y0 |-> 0, y1 |-> 0]

Box(x0, x1, y0, y1) == [finite |-> TRUE, x0 |-> x0, x1 |-> x1, y0 |-> y0, y1 |-> y1]

\* Bbox.union of two boxes; a null box (no data) adds nothing
Union2(a, b) ==
    IF ~a.finite THEN b
    ELSE IF ~b.finite THEN a
    ELSE Box(Min({a.x0, b.x0}), Max({a.x1, b.x1}),
             Min({a.y0, b.y0}), Max({a.y1, b.y1}))

UnionFinite(S) ==
    IF S = {} THEN NullBox
    ELSE Box(Min({b.x0 : b \in S}), Max({b.x1 : b \in S}),
             Min({b.y0 : b \in S}), Max({b.y1 : b \in S}))

\* Bbox.union of a set of boxes
UnionAll(S) == UnionFinite({b \in S : b.finite})

\* the view of an axes without data
DefaultView == Box(0, 2, 0, 2)

\* ax.autoscale_view(): the view follows the data limits when autoscaling is
\* on (the margins matplotlib adds are a fixed function of the limits and are
\* left out)
autoscale_view(ax) ==
    IF ax.autoscale
    THEN [ax EXCEPT !.view = IF ax.dataLim.finite THEN ax.dataLim ELSE DefaultView]
    ELSE ax

NoColorbar == [exists |-> FALSE, label |-> <<>>, clim |-> <<>>]

NotDrawn == [kind |-> "False", axes |-> 0]

\* a fresh subplot k (0-based) as plt.subplots makes it; add_subplot is the
\* subplot number bound in its add helper, partial(self.add, subplot=k+1)
NewAxes(k) ==
    [add_subplot     |-> k + 1,
     xlabel          |-> <<>>,
     ylabel          |-> <<>>,
     qcodes_colorbar |-> NoColorbar,
     ncolorbars      |-> 0,
     autoscale       |-> TRUE,
     view            |-> DefaultView,
     dataLim         |-> NullBox,
     artists         |-> <<>>,
     in_figure       |-> TRUE]

\* an absent role of a trace config
NoArr == [ndim |-> 0, ncols |-> 0, v |-> <<>>, label |-> "", unit |-> ""]

Has(cfg, role) == cfg[role].ndim # 0

\* get_label(data_array) of BasePlot: the label and unit of a data array
get_label(arr) == <<arr.label, arr.unit>>

\* "{} ({})".format(label, unit)
FormatLabel(label, unit) == <<label, unit>>

----------------------------------------------------------------------------
(* MatPlot.__getitem__ on the flat numpy array of subplots *)

\* self.subplots[key]: 0 when numpy raises IndexError, else the 1-based
\* position in the flat sequence; a negative key counts from the end
GetItem(n, key) ==
    IF key >= 0 /\ key < n THEN key + 1
    ELSE IF key < 0 /\ key >= 0 - n THEN n + key + 1
    ELSE 0

\* kwargs.get('subplot', 1)
SubplotArg(cfg) == IF cfg.subplot = <<>> THEN 1 ELSE cfg.subplot[1]

\* a faulty lookup, which takes the 1-based subplot number as the index;
\* C29 fails with it
AxesOfNoShift(n, cfg) == GetItem(n, SubplotArg(cfg))

\* the position of the subplot that self[config.get('subplot', 1) - 1] gives
AxesOf(n, cfg) == GetItem(n, SubplotArg(cfg) - 1)

----------------------------------------------------------------------------
(* MatPlot._init_plot and default_figsize *)

max_subplot_columns == 3

\* int(np.ceil(a / b)) for positive b
CeilDiv(a, b) == (a + b - 1) \div b

\* a faulty layout, which makes the grid as square as it can; C8 fails
\* with it
ShapeSquare(n) == <<CeilDiv(n, Min({n, 2})), Min({n, 2})>>

\* lines 100-102: a count becomes (nrows, ncols)
ShapeOfCount(n) == <<CeilDiv(n, max_subplot_columns), Min({n, max_subplot_columns})>>

\* lines 221-223
default_figsize(sub) ==
    IF sub.kind # "tuple"
    THEN [err |-> "TypeError", v |-> <<>>]
    ELSE [err |-> "none",
          v   |-> <<Min({3 + 3 * sub.shape[2], 12}), 1 + 3 * sub.shape[1]>>]

\* lines 96-102
AsTuple(sub) ==
    IF sub.kind = "int"
    THEN [kind |-> "tuple", n |-> 0, shape |-> ShapeOfCount(sub.n)]
    ELSE sub

\* plt.figure(figsize=fs, num=num), which plt.subplots calls first: a new
\* Figure unpacks fs into a width and a height; a figure that exists under
\* num is returned as it is and fs is not looked at
Figure(fs, num) == IF num \/ Len(fs) = 2 THEN "none" ELSE "TypeError"

\* lines 108-110: plt.subplots(*subplots, num=num, figsize=figsize) once the
\* figsize is known
SubplotsCall(sub, dfs, num) ==
    IF dfs.err # "none"
    THEN [err |-> dfs.err, shape |-> <<>>, figsize |-> <<>>]
    ELSE IF sub.kind # "tuple"
         \* plt.subplots(*None, ...)
         THEN [err |-> "TypeError", shape |-> <<>>, figsize |-> <<>>]
         ELSE IF Figure(dfs.v, num) # "none"
              THEN [err |-> Figure(dfs.v, num), shape |-> <<>>, figsize |-> <<>>]
              ELSE [err |-> "none", shape |-> sub.shape, figsize |-> dfs.v]

\* lines 104-110
InitTuple(sub, fs, num) ==
    SubplotsCall(sub, IF fs = <<>> THEN default_figsize(sub)
                                   ELSE [err |-> "none", v |-> fs], num)

\* lines 88-110.  sub is the subplots argument: kind "None", "int" (n),
\* "tuple" (shape) or "mapping" (nrows/ncols keywords, shape); fs is the
\* figsize argument, <<>> for None; num tells whether a figure exists under
\* the num argument.  Gives the new shape and figsize, or the error raised
\* before plt.subplots made a grid.
init_plot(sub, fs, num) ==
    IF sub.kind = "mapping"
    THEN SubplotsCall([sub EXCEPT !.kind = "tuple"],
                      [err |-> "none", v |-> IF fs = <<>> THEN <<6, 4>> ELSE fs], num)
    ELSE InitTuple(AsTuple(sub), fs, num)

\* lines 116-122: the flattened grid, each subplot with its add helper
FlatGrid(sh) == [k \in 1..(sh[1] * sh[2]) |-> NewAxes(k - 1)]

----------------------------------------------------------------------------
(* MatPlot._draw_plot *)

BoxOfPoints(xs, ys, ok) ==
    IF ok = {} THEN NullBox
    ELSE Box(Min({xs[i].h : i \in ok}), Max({xs[i].h : i \in ok}),
             Min({ys[i].h : i \in ok}), Max({ys[i].h : i \in ok}))

\* the bounds of the points of a line whose two coordinates are finite
LineBox(xs, ys) ==
    BoxOfPoints(xs, ys, {i \in 1..Min({Len(xs), Len(ys)}) : ~xs[i].nan /\ ~ys[i].nan})

\* the x data of a line: the x array, or the sample numbers when ax.plot is
\* given y alone
LineX(cfg) ==
    IF Has(cfg, "x") THEN cfg.x.v ELSE [i \in 1..Len(cfg.y.v) |-> Num(i - 1)]

LineArtist(cfg, owner) ==
    [kind |-> "line", owner |-> owner, box |-> LineBox(LineX(cfg), cfg.y.v)]

\* ax.plot(...): the line is added, the data limits grow, the view autoscales
PlotLine(ax, line) ==
    autoscale_view([ax EXCEPT !.artists = Append(@, line),
                              !.dataLim = Union2(@, line.box)])

\* lines 273-288; y is a required argument
draw_plot(ax, cfg, owner, idx) ==
    IF ~Has(cfg, "y")
    THEN [err |-> "TypeError", ax |-> ax, po |-> NotDrawn]
    ELSE [err |-> "none", ax |-> PlotLine(ax, LineArtist(cfg, owner)),
          po |-> [kind |-> "line", axes |-> idx]]

----------------------------------------------------------------------------
(* MatPlot._draw_pcolormesh *)

\* a faulty mask check, which leaves z out; C3 fails with it
AnyAllMaskedXY(cfg) ==
    \E role \in {"x", "y"} : Has(cfg, role) /\ AllMasked(cfg[role])

\* line 306: some supplied array is entirely invalid
AnyAllMasked(cfg) ==
    \E role \in {"x", "y", "z"} : Has(cfg, role) /\ AllMasked(cfg[role])

\* lines 395-396: cmin, cmax of the value array
ColorLimits(z) == <<nanmin(z.v), nanmax(z.v)>>

\* the extent of the mesh that ax.pcolormesh(z) draws without coordinates:
\* one unit cell per value
ShapeBox(z) ==
    IF z.ndim > 1 THEN Box(0, 2 * z.ncols, 0, 2 * NRows(z))
                  ELSE Box(0, 2 * Len(z.v), 0, 2)

\* lines 321-349 after the loop: the corrected x and y, as the extent of
\* the mesh they span
CorrectedArgs(cx, cy) ==
    IF cx.err # "none" \/ cy.err # "none"
    THEN [err |-> "IndexError", box |-> NullBox, setlim |-> FALSE]
    ELSE IF Finite(cx.v) = {} \/ Finite(cy.v) = {}
         \* no finite boundary to draw between or to set the view to
         THEN [err |-> "ValueError", box |-> NullBox, setlim |-> FALSE]
         ELSE [err |-> "none",
               box |-> Box(nanmin(cx.v).h, nanmax(cx.v).h,
                           nanmin(cy.v).h, nanmax(cy.v).h),
               setlim |-> TRUE]

\* a faulty draw, which sets the view to the mesh also when no coordinates
\* were supplied; C28 fails with it
MeshArgsSetLimits(cfg) ==
    IF Has(cfg, "x") /\ Has(cfg, "y")
    THEN CorrectedArgs(CorrectAxis(cfg.x, 0), CorrectAxis(cfg.y, 1))
    ELSE [err |-> "none", box |-> ShapeBox(cfg.z), setlim |-> TRUE]

\* lines 316-352: the arguments of ax.pcolormesh, as the extent of the mesh;
\* setlim says whether x and y were supplied
MeshArgs(cfg) ==
    IF Has(cfg, "x") /\ Has(cfg, "y")
    THEN CorrectedArgs(CorrectAxis(cfg.x, 0), CorrectAxis(cfg.y, 1))
    ELSE [err |-> "none", box |-> ShapeBox(cfg.z), setlim |-> FALSE]

\* line 360: pc = ax.pcolormesh(*args, **kwargs)
Pcolormesh(ax, mesh) ==
    autoscale_view([ax EXCEPT !.artists = Append(@, mesh),
                              !.dataLim = Union2(@, mesh.box)])

\* a faulty set_xlim and set_ylim, which widen the view that is there by a
\* margin instead of setting it to the mesh; C6 fails with them
SetLimitsWiden(ax, box, setlim) ==
    IF setlim
    THEN [ax EXCEPT !.view = Box(Min({@.x0, box.x0}) - 1, Max({@.x1, box.x1}) + 1,
                                 Min({@.y0, box.y0}) - 1, Max({@.y1, box.y1}) + 1),
                    !.autoscale = FALSE]
    ELSE ax

\* lines 363-365: set_xlim and set_ylim fix the view and switch autoscaling off
SetLimits(ax, box, setlim) ==
    IF setlim THEN [ax EXCEPT !.view = box, !.autoscale = FALSE] ELSE ax

\* a faulty label, which takes the label and unit of the z array whatever
\* the config says; C11 fails with it
ColorbarLabelInferred(cfg) == FormatLabel(get_label(cfg.z)[1], get_label(cfg.z)[2])

\* lines 386-392: the label of a new colour scale
ColorbarLabel(cfg) ==
    FormatLabel(IF cfg.zlabel = None THEN get_label(cfg.z)[1] ELSE cfg.zlabel,
                IF cfg.zunit = None THEN get_label(cfg.z)[2] ELSE cfg.zunit)

\* a faulty colour scale step, which makes a colour scale at every draw; C9
\* fails with it
ColorbarEachDraw(ax, cfg) ==
    [ax EXCEPT !.qcodes_colorbar =
                   [exists |-> TRUE, label |-> ColorbarLabel(cfg), clim |-> <<>>],
               !.ncolorbars = @ + 1]

\* lines 371-392: the colour scale of the subplot is updated, or made and
\* labelled when the subplot has none
Colorbar(ax, cfg) ==
    IF ax.qcodes_colorbar.exists
    THEN ax
    ELSE [ax EXCEPT !.qcodes_colorbar =
                        [exists |-> TRUE, label |-> ColorbarLabel(cfg), clim |-> <<>>],
                    !.ncolorbars = @ + 1]

\* a faulty set_clim, which only ever widens the limits that are there; C10
\* fails with it
SetClimWiden(ax, clim) ==
    IF ax.qcodes_colorbar.clim = <<>> \/ ax.qcodes_colorbar.clim[1].nan
    THEN [ax EXCEPT !.qcodes_colorbar.clim = clim]
    ELSE [ax EXCEPT !.qcodes_colorbar.clim =
             << F(Min({@[1].h, clim[1].h})), F(Max({@[2].h, clim[2].h})) >>]

\* line 397: ax.qcodes_colorbar.set_clim(cmin, cmax)
SetClim(ax, clim) == [ax EXCEPT !.qcodes_colorbar.clim = clim]

\* lines 360-399
DrawMesh(ax, cfg, owner, idx, box, setlim) ==
    [err |-> "none",
     ax  |-> SetClim(Colorbar(SetLimits(Pcolormesh(ax, [kind |-> "mesh", owner |-> owner,
                                                         box |-> box]),
                                        box, setlim),
                              cfg),
                     ColorLimits(cfg.z)),
     po  |-> [kind |-> "mesh", axes |-> idx]]

\* lines 313-399, given the arguments for ax.pcolormesh
DrawArgs(ax, cfg, owner, idx, args) ==
    IF args.err # "none"
    THEN [err |-> args.err, ax |-> ax, po |-> NotDrawn]
    ELSE DrawMesh(ax, cfg, owner, idx, args.box, args.setlim)

\* lines 290-399
draw_pcolormesh(ax, cfg, owner, idx) ==
    IF AnyAllMasked(cfg)
    THEN \* nothing to draw
         [err |-> "none", ax |-> ax, po |-> NotDrawn]
    ELSE DrawArgs(ax, cfg, owner, idx, MeshArgs(cfg))

----------------------------------------------------------------------------
(* MatPlot._update_labels *)

AxisLabel(ax, axletter) == IF axletter = "x" THEN ax.xlabel ELSE ax.ylabel

SetAxisLabel(ax, axletter, text) ==
    IF axletter = "x" THEN [ax EXCEPT !.xlabel = text] ELSE [ax EXCEPT !.ylabel = text]

\* lines 178-181 and 185-188: the label and unit given in the config
ConfigLabel(cfg, axletter) == IF axletter = "x" THEN cfg.xlabel ELSE cfg.ylabel

ConfigUnit(cfg, axletter) == IF axletter = "x" THEN cfg.xunit ELSE cfg.yunit

\* line 193: the axis has data in the config and no label yet
Infers(ax, cfg, axletter) == Has(cfg, axletter) /\ AxisLabel(ax, axletter) = <<>>

\* lines 193-199 and 208: the text the axis label is set to
LabelText(ax, cfg, axletter) ==
    FormatLabel(
        IF Infers(ax, cfg, axletter) /\ ConfigLabel(cfg, axletter) = None
        THEN get_label(cfg[axletter])[1] ELSE ConfigLabel(cfg, axletter),
        IF Infers(ax, cfg, axletter) /\ ConfigUnit(cfg, axletter) = None
        THEN get_label(cfg[axletter])[2] ELSE ConfigUnit(cfg, axletter))

\* a faulty pass, which sets the label whether or not the axis has one; C4
\* fails with it
LabelPassOverwrite(ax, cfg, axletter) ==
    [ax |-> SetAxisLabel(ax, axletter, LabelText(ax, cfg, axletter)),
     returned |-> FALSE]

\* one pass of the loop of lines 177-208 for one axis: the axes after it
\* and whether the pass returned from the method
LabelPass(ax, cfg, axletter) ==
    IF ~Infers(ax, cfg, axletter) /\ AxisLabel(ax, axletter) # <<>>
    THEN [ax |-> ax, returned |-> TRUE]
    ELSE [ax |-> SetAxisLabel(ax, axletter, LabelText(ax, cfg, axletter)),
          returned |-> FALSE]

\* the y pass, unless the x pass returned
AfterXPass(px, cfg) == IF px.returned THEN px.ax ELSE LabelPass(px.ax, cfg, "y").ax

\* lines 176-208
update_labels(ax, cfg) == AfterXPass(LabelPass(ax, cfg, "x"), cfg)

----------------------------------------------------------------------------
(* The default title, from the labels of the traces *)

ConfigLabels(cfg) == {cfg[role].label : role \in {r \in {"x", "y", "z"} : Has(cfg, r)}}

\* get_default_title() of BasePlot: derived from the set of trace labels
get_default_title(trs) == UNION {ConfigLabels(trs[i].config) : i \in DOMAIN trs}

----------------------------------------------------------------------------
(* MatPlot.add_to_plot *)

Last(op, err, arg, rep) == [op |-> op, err |-> err, arg |-> arg, rep |-> rep]

AddDrawByY(cfg, idx) ==
    IF idx = 0
    THEN [err |-> "IndexError", ax |-> NewAxes(0), po |-> NotDrawn]
    ELSE IF ~Has(cfg, "y")
         THEN draw_pcolormesh(subplots[idx], cfg, Len(traces) + 1, idx)
         ELSE draw_plot(subplots[idx], cfg, Len(traces) + 1, idx)

\* lines 156-159: the trace is drawn on subplot idx; idx = 0 when the lookup
\* of line 155 raised
AddDraw(cfg, idx) ==
    IF idx = 0
    THEN [err |-> "IndexError", ax |-> NewAxes(0), po |-> NotDrawn]
    ELSE IF Has(cfg, "z")
         THEN draw_pcolormesh(subplots[idx], cfg, Len(traces) + 1, idx)
         ELSE draw_plot(subplots[idx], cfg, Len(traces) + 1, idx)

\* lines 165-174: the title follows the default only while it still shows
\* the previous default
TitleAfterAdd(text, before, after) ==
    IF get_default_title(before) = text THEN get_default_title(after) ELSE text

\* lines 164-174, after the draw gave r
AddDrawn(cfg, idx, r) ==
    IF r.err # "none"
    THEN /\ last' = Last("add", r.err, cfg.subplot, 1)
         /\ UNCHANGED <<shape, figsize, subplots, traces, title, customized>>
    ELSE /\ subplots' = [subplots EXCEPT ![idx] = update_labels(r.ax, cfg)]
         /\ traces' = Append(traces, [config |-> cfg, plot_object |-> r.po])
         /\ title' = TitleAfterAdd(title, traces,
                                   Append(traces, [config |-> cfg, plot_object |-> r.po]))
         /\ customized' = (customized /\ get_default_title(traces) # title)
         /\ last' = Last("add", "none", cfg.subplot, 1)
         /\ UNCHANGED <<shape, figsize>>

AddAt(cfg, idx) == AddDrawn(cfg, idx, AddDraw(cfg, idx))

\* lines 135-174
add_to_plot(cfg) == AddAt(cfg, AxesOf(Len(subplots), cfg))

----------------------------------------------------------------------------
(* MatPlot.update_plot *)

RECURSIVE RemoveFirst(_, _, _)
\* plot_object.remove(): the artifact of that kind and owner leaves the axes
RemoveFirst(arts, kind, owner) ==
    IF arts = <<>> THEN <<>>
    ELSE IF Head(arts).kind = kind /\ Head(arts).owner = owner
         THEN Tail(arts)
         ELSE <<Head(arts)>> \o RemoveFirst(Tail(arts), kind, owner)

\* a faulty update, which leaves the mesh drawn before on the axes; C25
\* fails with it
RemoveOldKeep(sp, po, i) == sp

\* lines 240-241: if plot_object: plot_object.remove()
RemoveOld(sp, po, i) ==
    IF po # NotDrawn
    THEN [sp EXCEPT ![po.axes].artists = RemoveFirst(@, "mesh", i)]
    ELSE sp

\* lines 248-249: the extent of the mesh just drawn
DatalimOf(ax) == ax.artists[Len(ax.artists)].box

\* lines 244-249, after the redraw gave r
Redrawn(st, i, sp, idx, r) ==
    IF r.err # "none"
    THEN [st EXCEPT !.subplots = sp, !.err = r.err]
    ELSE [subplots |-> [sp EXCEPT ![idx] = r.ax],
          traces   |-> [st.traces EXCEPT ![i].plot_object = r.po],
          bboxes   |-> IF r.po # NotDrawn
                       THEN [st.bboxes EXCEPT ![idx] = @ \cup {DatalimOf(r.ax)}]
                       ELSE st.bboxes,
          err      |-> "none"]

\* lines 243-249
RedrawAt(st, i, sp, idx) ==
    IF idx = 0 THEN [st EXCEPT !.subplots = sp, !.err = "IndexError"]
    ELSE Redrawn(st, i, sp, idx,
                 draw_pcolormesh(sp[idx], st.traces[i].config, i, idx))

Redraw(st, i, sp) == RedrawAt(st, i, sp, AxesOf(Len(sp), st.traces[i].config))

\* lines 237-249: a mesh trace is removed and drawn again
UpdateMesh(st, i) == Redraw(st, i, RemoveOld(st.subplots, st.traces[i].plot_object, i))

\* the artists of an axes with the line of trace i given its new data
SetLineData(arts, cfg, i) ==
    [j \in DOMAIN arts |->
        IF arts[j].kind = "line" /\ arts[j].owner = i
        THEN LineArtist(cfg, i) ELSE arts[j]]

\* lines 250-254: a line keeps its object and takes the new x and y data
UpdateLine(st, i) ==
    [st EXCEPT !.subplots[st.traces[i].plot_object.axes].artists =
                   SetLineData(@, st.traces[i].config, i)]

RECURSIVE UpdateFrom(_, _)
\* the loop of lines 234-254 from trace i on
UpdateFrom(st, i) ==
    IF i > Len(st.traces) \/ st.err # "none" THEN st
    ELSE UpdateFrom(IF Has(st.traces[i].config, "z") THEN UpdateMesh(st, i)
                                                     ELSE UpdateLine(st, i),
                    i + 1)

LineBoxes(arts) == {arts[j].box : j \in {m \in DOMAIN arts : arts[m].kind = "line"}}

\* ax.relim(): the data limits are recomputed from the lines; collections
\* (meshes) are ignored
relim(ax) == [ax EXCEPT !.dataLim = UnionAll(LineBoxes(ax.artists))]

\* a faulty merge, which always overwrites the data limits with the bounds
\* of the meshes; C26 fails with it
MergeBoxesOverwrite(ax, boxes) ==
    IF boxes = {} THEN ax ELSE [ax EXCEPT !.dataLim = UnionAll(boxes)]

\* lines 259-268
MergeBoxes(ax, boxes) ==
    IF boxes = {} THEN ax
    ELSE IF ax.dataLim.finite
         THEN [ax EXCEPT !.dataLim = Union2(@, UnionAll(boxes))]
         ELSE [ax EXCEPT !.dataLim = UnionAll(boxes)]

\* lines 257-269 for one subplot
Rescale(ax, boxes) ==
    IF ax.autoscale THEN autoscale_view(MergeBoxes(relim(ax), boxes)) ELSE ax

\* lines 256-271; an exception raised by a redraw leaves what was done
\* before it
UpdateDone(st, rep) ==
    /\ traces' = st.traces
    /\ subplots' = IF st.err # "none" THEN st.subplots
                   ELSE [k \in DOMAIN st.subplots |-> Rescale(st.subplots[k], st.bboxes[k])]
    /\ last' = Last("update", st.err, <<>>, rep)
    /\ UNCHANGED <<shape, figsize, title, customized>>

\* lines 225-271; rep counts this update among the updates made in a row
update_plot ==
    UpdateDone(UpdateFrom([subplots |-> subplots, traces |-> traces,
                           bboxes |-> [k \in DOMAIN subplots |-> {}],
                           err |-> "none"], 1),
               IF last.op = "update" THEN 2 ELSE 1)

----------------------------------------------------------------------------
(* MatPlot.clear *)

\* ax.cla(), which fig.clf() calls on every axes before deleting it from the
\* figure: the axes object keeps the attributes set on it by this class
cla(ax) ==
    [NewAxes(ax.add_subplot - 1) EXCEPT !.qcodes_colorbar = ax.qcodes_colorbar,
                                        !.in_figure = FALSE]

\* lines 131-133, after _init_plot gave r
Cleared(sub, fs, r) ==
    /\ traces' = <<>>
    /\ last' = Last("clear", r.err, [sub |-> sub, fs |-> fs], 1)
    /\ IF r.err # "none"
       THEN \* _init_plot raised: self.subplots and self.title still are
            \* the objects of the figure that clf() emptied
            /\ subplots' = [k \in DOMAIN subplots |-> cla(subplots[k])]
            /\ UNCHANGED <<shape, figsize, title, customized>>
       ELSE /\ subplots' = FlatGrid(r.shape)
            /\ shape' = r.shape
            /\ figsize' = r.figsize
            /\ title' = {}
            /\ customized' = FALSE

\* lines 126-133: _init_plot is given the number of the figure, which clf()
\* has emptied and left open
clear(sub, fs) == Cleared(sub, fs, init_plot(sub, fs, TRUE))

----------------------------------------------------------------------------
(* The data layer: arrays that the acquisition fills in place *)

R0 == [ndim |-> 0, ncols |-> 0, v |-> <<>>]

R1(v) == [ndim |-> 1, ncols |-> Len(v), v |-> v]

\* a 2-D array of two rows
R2(r1, r2) == [ndim |-> 2, ncols |-> Len(r1), v |-> r1 \o r2]

\* a 2-D array of one row
R2one(r1) == [ndim |-> 2, ncols |-> Len(r1), v |-> r1]

Data(x, y, z) == [x |-> x, y |-> y, z |-> z]

NoLabels ==
    [xlabel |-> None, xunit |-> None, ylabel |-> None, yunit |-> None,
     zlabel |-> None, zunit |-> None]

\* the label and unit found on the array of a role
ArrayName(role, mesh) ==
    IF role = "x" THEN <<"gate", "V">>
    ELSE IF role = "z" THEN <<"cond", "S">>
    ELSE IF mesh THEN <<"field", "T">> ELSE <<"current", "A">>

Named(raw, role, mesh) ==
    IF raw.ndim = 0 THEN NoArr
    ELSE [ndim |-> raw.ndim, ncols |-> raw.ncols, v |-> raw.v,
          label |-> ArrayName(role, mesh)[1], unit |-> ArrayName(role, mesh)[2]]

\* the kwargs of one add call: sub is <<>> when no subplot is given
Config(sub, d, lab) ==
    [subplot |-> sub,
     x |-> Named(d.x, "x", d.z.ndim # 0),
     y |-> Named(d.y, "y", d.z.ndim # 0),
     z |-> Named(d.z, "z", TRUE),
     xlabel |-> lab.xlabel, xunit |-> lab.xunit,
     ylabel |-> lab.ylabel, yunit |-> lab.yunit,
     zlabel |-> lab.zlabel, zunit |-> lab.zunit]

\* d has arrays for the roles of cfg and no others, of the shapes that the
\* arrays of cfg have: samples are written in place
SameRoles(cfg, d) ==
    \A role \in {"x", "y", "z"} :
        /\ cfg[role].ndim = d[role].ndim
        /\ cfg[role].ncols = d[role].ncols
        /\ Len(cfg[role].v) = Len(d[role].v)

Refill(arr, raw) ==
    IF arr.ndim = 0 THEN arr
    ELSE [arr EXCEPT !.ndim = raw.ndim, !.ncols = raw.ncols, !.v = raw.v]

\* the acquisition writes new samples into the arrays a trace config refers to
SetData(i, d) ==
    /\ i \in DOMAIN traces
    /\ SameRoles(traces[i].config, d)
    /\ traces' = [traces EXCEPT ![i].config.x = Refill(@, d.x),
                                ![i].config.y = Refill(@, d.y),
                                ![i].config.z = Refill(@, d.z)]
    /\ traces' # traces
    /\ last' = Last("data", "none", <<>>, 1)
    /\ UNCHANGED <<shape, figsize, subplots, title, customized>>

\* the datasets drawn: lines 273-288 take the first group, 290-352 the
\* others; the last one is a mesh with an x array and no y array
AllData ==
    {
      Data(R0, R1(<<Num(1), Num(3)>>), R0),
      Data(R1(<<Num(0), Num(4)>>), R1(<<Num(1), Num(3)>>), R0),
      Data(R1(<<Num(0), Num(4)>>), R1(<<Num(2), NaN>>), R0)
    } \cup {
      Data(R2(<<Num(0), Num(1)>>, <<Num(0), Num(1)>>), R1(<<Num(0), Num(2)>>), R2(<<Num(1), Num(2)>>, <<Num(3), Num(4)>>)),
      Data(R2(<<Num(0), Num(1)>>, <<NaN, NaN>>), R1(<<Num(3), NaN>>), R2(<<Num(2), Num(3)>>, <<NaN, NaN>>)),
      Data(R2(<<Num(0), Num(1)>>, <<NaN, NaN>>), R1(<<NaN, NaN>>), R2(<<Num(2), Num(3)>>, <<NaN, NaN>>)),
      Data(R2(<<NaN, NaN>>, <<NaN, NaN>>), R1(<<NaN, NaN>>), R2(<<NaN, NaN>>, <<NaN, NaN>>))
    } \cup {
      Data(R0, R0, R2(<<Num(1), Num(2)>>, <<Num(3), Num(4)>>)),
      Data(R0, R0, R2one(<<Num(5), Num(1), NaN>>)),
      Data(R0, R0, R2(<<NaN, NaN>>, <<NaN, NaN>>)),
      Data(R1(<<Num(0), Num(4)>>), R0, R2(<<Num(1), Num(2)>>, <<Num(3), Num(4)>>))
    }

----------------------------------------------------------------------------
(* Construction and the calls made on a plot *)

MaxTraces == 2

GridCount == 2

IntArg(n) == [kind |-> "int", n |-> n, shape |-> <<>>]

GridIdle ==
    /\ gc_arr = Arr1(<<>>, "", "")
    /\ gc_k = 0
    /\ gc_out = [err |-> "pending", v |-> <<>>]

\* lines 55-75 after _init_plot gave r: a plot without traces
Constructed(sub, fs, r) ==
    /\ r.err = "none"
    /\ shape = r.shape
    /\ figsize = r.figsize
    /\ subplots = FlatGrid(r.shape)
    /\ traces = <<>>
    /\ title = {}
    /\ customized = FALSE
    /\ last = Last("init", "none", [sub |-> sub, fs |-> fs], 1)

\* MatPlot(subplots=sub, figsize=fs), lines 55-75: num is None, a new figure
Construct(sub, fs) == Constructed(sub, fs, init_plot(sub, fs, FALSE))

Add(cfg) ==
    /\ Len(traces) < MaxTraces
    /\ add_to_plot(cfg)
    /\ UNCHANGED gridvars
    /\ UNCHANGED <<cw, ev, wr>>

Update ==
    /\ update_plot
    /\ UNCHANGED gridvars
    /\ UNCHANGED <<cw, ev, wr>>

Clear(sub, fs) ==
    /\ clear(sub, fs)
    /\ UNCHANGED gridvars
    /\ UNCHANGED <<cw, ev, wr>>

Acquire(i, d) ==
    /\ SetData(i, d)
    /\ UNCHANGED gridvars
    /\ UNCHANGED <<cw, ev, wr>>

\* the subplot numbers tried besides the default: 0, and the first above
\* the grid
SubplotArgs == {<<0>>, <<GridCount + 1>>}

\* the traces added with a subplot number: a line and a mesh
NumberedData ==
    { Data(R1(<<Num(0), Num(4)>>), R1(<<Num(1), Num(3)>>), R0),
      Data(R0, R0, R2one(<<Num(5), Num(1), NaN>>)) }

Configs ==
    {Config(<<>>, d, NoLabels) : d \in AllData}
        \cup {Config(sub, d, NoLabels) : sub \in SubplotArgs, d \in NumberedData}

\* a plot without traces; no ClickWidget has been opened
Init ==
    /\ Construct(IntArg(GridCount), <<>>)
    /\ GridIdle
    /\ cw = [crossbtn |-> FALSE, sumbtn |-> FALSE]
    /\ ev = [kind |-> "none"]
    /\ wr = [pc |-> "none"]

Next ==
    \/ \E cfg \in Configs : Add(cfg)
    \/ Update
    \/ \E i \in 1..MaxTraces, d \in AllData : Acquire(i, d)
    \/ Clear(IntArg(GridCount), <<>>)

Spec == Init /\ [][Next]_vars

----------------------------------------------------------------------------
(* The grid-corner correction alone, over every small axis array *)

MaxLen == 3

MaxVal == 4

\* the 1-D axis arrays of 1..MaxLen samples
AxisArrays1 ==
    {Arr1(v, "gate", "V") : v \in UNION {[1..n -> {NaN} \cup {Num(v) : v \in 0..MaxVal}] : n \in 1..MaxLen}}

\* 2-D axis arrays of two rows of two samples, as a 2-D sweep fills them
AxisArrays2 ==
    {Arr2(r1 \o r2, 2, "gate", "V") : r1 \in [1..2 -> {NaN, Num(0), Num(1), Num(3)}], r2 \in [1..2 -> {NaN, Num(0), Num(1), Num(3)}]}

GridInit ==
    /\ Construct(IntArg(1), <<>>)
    /\ gc_arr \in AxisArrays1 \cup AxisArrays2
    /\ gc_k \in {0, 1}
    /\ gc_out = [err |-> "pending", v |-> <<>>]
    /\ cw = [crossbtn |-> FALSE, sumbtn |-> FALSE]
    /\ ev = [kind |-> "none"]
    /\ wr = [pc |-> "none"]

\* lines 322-348 on the axis array gc_arr as axis gc_k
Correct ==
    /\ gc_out.err = "pending"
    /\ gc_out' = CorrectAxis(gc_arr, gc_k)
    /\ UNCHANGED <<gc_arr, gc_k>>
    /\ UNCHANGED plotvars
    /\ UNCHANGED <<cw, ev, wr>>

NextGrid == Correct

SpecGrid == GridInit /\ [][NextGrid]_vars

----------------------------------------------------------------------------
(* Layout: construction and clear with every kind of argument *)

MaxSubplots == 7

\* figsize: None, a pair, and tuples that are no pair
Figsizes == {<<>>, <<8, 5>>, <<8>>, <<8, 5, 3>>}

\* clear(subplots=...): nothing, a count, a (nrows, ncols) tuple, a mapping
\* of nrows and ncols
LayoutArgs ==
    {[kind |-> "None", n |-> 0, shape |-> <<>>], [kind |-> "tuple", n |-> 0, shape |-> <<1, 2>>], [kind |-> "mapping", n |-> 0, shape |-> <<2, 1>>]} \cup {IntArg(n) : n \in 1..MaxSubplots}

LayoutConfigs ==
    {Config(sub, d, NoLabels) :
        sub \in {<<>>, <<4>>},
        d \in {Data(R1(<<Num(0), Num(4)>>), R1(<<Num(1), Num(3)>>), R0),
               Data(R0, R0, R2(<<Num(1), Num(2)>>, <<Num(3), Num(4)>>))}}

LayoutInit ==
    /\ \E n \in 1..MaxSubplots, fs \in Figsizes : Construct(IntArg(n), fs)
    /\ GridIdle
    /\ cw = [crossbtn |-> FALSE, sumbtn |-> FALSE]
    /\ ev = [kind |-> "none"]
    /\ wr = [pc |-> "none"]

\* plot[k].add(...): the add helper that line 122 bound to subplot k, which
\* passes its subplot number on to add
SubplotAdd(k, d) ==
    /\ GetItem(Len(subplots), k) # 0
    /\ Add(Config(<<subplots[GetItem(Len(subplots), k)].add_subplot>>, d, NoLabels))

NextLayout ==
    \/ \E sub \in LayoutArgs, fs \in Figsizes : Clear(sub, fs)
    \/ \E cfg \in LayoutConfigs : Add(cfg)
    \/ Update

SpecLayout == LayoutInit /\ [][NextLayout]_vars

\* adds through the helpers of the subplots of every grid, updates, and
\* clears that lay out another grid
NextSub ==
    \/ \E k \in 0..(MaxSubplots - 1),
          d \in {Data(R1(<<Num(0), Num(4)>>), R1(<<Num(1), Num(3)>>), R0),
                 Data(R0, R0, R2(<<Num(1), Num(2)>>, <<Num(3), Num(4)>>))} : SubplotAdd(k, d)
    \/ Update
    \/ \E n \in 1..MaxSubplots : Clear(IntArg(n), <<>>)

SpecSub == LayoutInit /\ [][NextSub]_vars

----------------------------------------------------------------------------
(* Labels: add calls with and without explicit labels and units *)

LabelData ==
    { Data(R0, R1(<<Num(1), Num(3)>>), R0),
      Data(R1(<<Num(0), Num(4)>>), R1(<<Num(1), Num(3)>>), R0),
      Data(R2(<<Num(0), Num(1)>>, <<Num(0), Num(1)>>), R1(<<Num(0), Num(2)>>),
           R2(<<Num(1), Num(2)>>, <<Num(3), Num(4)>>)),
      Data(R0, R0, R2(<<NaN, NaN>>, <<NaN, NaN>>)) }

LabelConfigs ==
    {Config(sub, d, lab) :
        sub \in {<<>>, <<2>>}, d \in LabelData,
        lab \in {NoLabels, [NoLabels EXCEPT !.xlabel = "Gate voltage", !.xunit = "mV"], [NoLabels EXCEPT !.ylabel = "Signal"], [NoLabels EXCEPT !.xunit = "mV", !.yunit = "nA"]}}

NextLabels ==
    \/ \E cfg \in LabelConfigs : Add(cfg)
    \/ Update
    \/ Clear(IntArg(GridCount), <<>>)

SpecLabels == Init /\ [][NextLabels]_vars

----------------------------------------------------------------------------
(* Labels set by the caller on a subplot reached through plot[key] *)

\* plot[key].set_xlabel(text) or plot[key].set_ylabel(text), lines 77-86
SetLabel(key, axletter) ==
    /\ GetItem(Len(subplots), key) # 0
    /\ subplots' = [subplots EXCEPT ![GetItem(Len(subplots), key)] =
                        SetAxisLabel(@, axletter, <<"Bias">>)]
    /\ last' = Last("label", "none", <<>>, 1)
    /\ UNCHANGED <<shape, figsize, traces, title, customized>>
    /\ UNCHANGED gridvars
    /\ UNCHANGED <<cw, ev, wr>>

NextAxes ==
    \/ \E cfg \in LabelConfigs : Add(cfg)
    \/ \E key \in 0..(GridCount - 1), axletter \in {"x", "y"} : SetLabel(key, axletter)
    \/ Update
    \/ Clear(IntArg(GridCount), <<>>)

SpecAxes == Init /\ [][NextAxes]_vars

----------------------------------------------------------------------------
(* Colour scales: mesh traces with and without a label and unit written for z *)

\* meshes without coordinates: complete, one row, nothing measured yet;
\* meshes with coordinates, of two rows: complete, nothing measured yet;
\* and of one row: complete, nothing measured yet
ScaleData ==
    { Data(R0, R0, R2(<<Num(1), Num(2)>>, <<Num(3), Num(4)>>)),
      Data(R0, R0, R2one(<<Num(5), Num(1), NaN>>)),
      Data(R0, R0, R2(<<NaN, NaN>>, <<NaN, NaN>>)),
      Data(R2(<<Num(0), Num(1)>>, <<Num(0), Num(1)>>), R1(<<Num(0), Num(2)>>),
           R2(<<Num(1), Num(2)>>, <<Num(3), Num(4)>>)),
      Data(R2(<<NaN, NaN>>, <<NaN, NaN>>), R1(<<NaN, NaN>>),
           R2(<<NaN, NaN>>, <<NaN, NaN>>)),
      Data(R2one(<<Num(0), Num(1)>>), R1(<<Num(5)>>), R2one(<<Num(1), Num(2)>>)),
      Data(R2one(<<NaN, NaN>>), R1(<<NaN>>), R2one(<<NaN, NaN>>)) }

ScaleConfigs ==
    {Config(sub, d, lab) :
        sub \in {<<>>}, d \in ScaleData,
        lab \in {NoLabels, [NoLabels EXCEPT !.zlabel = "Conductance", !.zunit = "uS"], [NoLabels EXCEPT !.zlabel = "Signal"]}}

NextScale ==
    \/ \E cfg \in ScaleConfigs : Add(cfg)
    \/ Update
    \/ \E i \in 1..MaxTraces, d \in ScaleData : Acquire(i, d)
    \/ Clear(IntArg(GridCount), <<>>)

SpecScale == Init /\ [][NextScale]_vars


----------------------------------------------------------------------------
(* The window title: add calls and a caller who sets the title text *)

\* plot.title.set_text(t) by the caller, on the Text object of line 124
SetTitle(t) ==
    /\ title' = t
    /\ customized' = (t # get_default_title(traces))
    /\ last' = Last("title", "none", <<>>, 1)
    /\ UNCHANGED <<shape, figsize, subplots, traces>>
    /\ UNCHANGED gridvars
    /\ UNCHANGED <<cw, ev, wr>>

\* the caller sets a text that no default ever shows, or one that reads like
\* the default of a plot holding a single y trace
NextTitle ==
    \/ \E sub \in {<<>>, <<2>>}, d \in LabelData : Add(Config(sub, d, NoLabels))
    \/ \E t \in {{"Run 7"}, {"current"}} : SetTitle(t)
    \/ Update
    \/ Clear(IntArg(GridCount), <<>>)

SpecTitle == Init /\ [][NextTitle]_vars

----------------------------------------------------------------------------
(* ClickWidget: the cross-section inspector of one heatmap.  Axis values,   *)
(* heatmap values and click coordinates are integers; an axis limit is      *)
(* kept in hundredths, so that m * 1.05 is 105 * m.  The axes of the        *)
(* figure are named "00" (heatmap), "01" and "10" after self.ax[i, j]; a    *)
(* line is the record of the axes it is on and its data.                    *)

argminLast(axis, coord) ==
    CHOOSE i \in 0..(Len(axis) - 1) :
        /\ \A j \in DOMAIN axis : (IF axis[i + 1] < coord THEN coord - axis[i + 1]
                                                         ELSE axis[i + 1] - coord)
                                    <= (IF axis[j] < coord THEN coord - axis[j]
                                                           ELSE axis[j] - coord)
        /\ \A j \in (i + 2)..Len(axis) :
              (IF axis[j] < coord THEN coord - axis[j] ELSE axis[j] - coord)
                > (IF axis[i + 1] < coord THEN coord - axis[i + 1]
                                          ELSE axis[i + 1] - coord)

\* (abs(axis - coord)).argmin(), lines 607-608: the 0-based position of the
\* first smallest absolute difference
argmin(axis, coord) ==
    CHOOSE i \in 0..(Len(axis) - 1) :
        /\ \A j \in DOMAIN axis : (IF axis[i + 1] < coord THEN coord - axis[i + 1]
                                                         ELSE axis[i + 1] - coord)
                                    <= (IF axis[j] < coord THEN coord - axis[j]
                                                           ELSE axis[j] - coord)
        /\ \A j \in 1..i :
              (IF axis[j] < coord THEN coord - axis[j] ELSE axis[j] - coord)
                > (IF axis[i + 1] < coord THEN coord - axis[i + 1]
                                          ELSE axis[i + 1] - coord)

RECURSIVE SumSeq(_)
SumSeq(s) == IF s = <<>> THEN 0 ELSE Head(s) + SumSeq(Tail(s))

\* z.sum(axis=0): the sum of every column; z.sum(axis=1): of every row
AxisSum(z, axis) ==
    IF axis = 0
    THEN [c \in DOMAIN z[1] |-> SumSeq([r \in DOMAIN z |-> z[r][c]])]
    ELSE [r \in DOMAIN z |-> SumSeq(z[r])]

\* an axes just added to the figure, or just cleared
EmptyAxes ==
    [lines |-> <<>>, title |-> <<>>, xlim |-> <<>>, ylim |-> <<>>,
     xlabel |-> <<>>, ylabel |-> <<>>, mesh |-> FALSE]

remove_plotsKeep(w) ==
    [w EXCEPT !.lines = <<>>,
              !.datacursor = IF @ = "none" THEN "none"
                             ELSE IF @ = "attached" THEN "removed"
                             ELSE "removed again"]

\* lines 597-602: line.remove() takes each tracked line off the axes it was
\* drawn on; then the list is emptied and remove() is called on the cursor
\* that self._datacursor refers to, if any: one that is attached, or one
\* that an earlier call removed
RECURSIVE remove_plots(_)
remove_plots(w) ==
    IF w.lines = <<>>
    THEN [w EXCEPT !.datacursor = IF @ = "none" THEN "none"
                             ELSE IF @ = "attached" THEN "removed"
                             ELSE "removed again"]
    ELSE remove_plots(
             [w EXCEPT
                 !.ax[Head(w.lines).on].lines =
                     IF \E k \in DOMAIN @ : @[k] = Head(w.lines)
                     THEN [j \in 1..(Len(@) - 1) |->
                              IF j < Min({k \in DOMAIN @ : @[k] = Head(w.lines)})
                              THEN @[j] ELSE @[j + 1]]
                     ELSE @,
                 !.lines = Tail(@)])

toggle_sumAuto(w) ==
    IF ~w.crossbtn THEN remove_plots(w)
    ELSE IF w.sumbtn
    THEN [remove_plots(w) EXCEPT
            !.cursor_active = FALSE,
            !.ax["10"] =
                [EmptyAxes EXCEPT
                    !.ylim = <<0, 105 * Max({AxisSum(w.config.z, 0)[c] :
                                                c \in DOMAIN w.config.xaxis})>>,
                    !.xlabel = <<w.config.xlabel>>,
                    !.ylabel = <<"sum of", w.config.zlabel>>,
                    !.lines = <<[on |-> "10", xdata |-> w.config.xaxis,
                                 ydata |-> AxisSum(w.config.z, 0)]>>],
            !.ax["01"] =
                [EmptyAxes EXCEPT
                    !.xlim = <<0, 105 * Max({AxisSum(w.config.z, 1)[r] :
                                                r \in DOMAIN w.config.yaxis})>>,
                    !.xlabel = <<"sum of", w.config.zlabel>>,
                    !.ylabel = <<w.config.ylabel>>,
                    !.lines = <<[on |-> "01", xdata |-> AxisSum(w.config.z, 1),
                                 ydata |-> w.config.yaxis]>>],
            !.lines = <<[on |-> "01", xdata |-> AxisSum(w.config.z, 1),
                         ydata |-> w.config.yaxis],
                        [on |-> "10", xdata |-> w.config.xaxis,
                         ydata |-> AxisSum(w.config.z, 0)]>>,
            !.datacursor = "attached"]
    ELSE [remove_plots(w) EXCEPT
            !.cursor_active = TRUE,
            !.ax["10"] = [EmptyAxes EXCEPT !.xlabel = <<w.config.xlabel>>,
                                           !.ylabel = <<w.config.zlabel>>],
            !.ax["01"] = [EmptyAxes EXCEPT !.xlabel = <<w.config.zlabel>>,
                                           !.ylabel = <<w.config.ylabel>>]]

\* lines 562-595: without panels nothing but remove_plots; in sum mode the
\* sums along both axes with the lines that show them (lines 568-587); else
\* empty panels scaled to the largest value of the heatmap (lines 588-594)
toggle_sum(w) ==
    IF ~w.crossbtn THEN remove_plots(w)
    ELSE IF w.sumbtn
    THEN [remove_plots(w) EXCEPT
            !.cursor_active = FALSE,
            !.ax["10"] =
                [EmptyAxes EXCEPT
                    !.ylim = <<0, 105 * Max({AxisSum(w.config.z, 0)[c] :
                                                c \in DOMAIN w.config.xaxis})>>,
                    !.xlabel = <<w.config.xlabel>>,
                    !.ylabel = <<"sum of", w.config.zlabel>>,
                    !.lines = <<[on |-> "10", xdata |-> w.config.xaxis,
                                 ydata |-> AxisSum(w.config.z, 0)]>>],
            !.ax["01"] =
                [EmptyAxes EXCEPT
                    !.xlim = <<0, 105 * Max({AxisSum(w.config.z, 1)[r] :
                                                r \in DOMAIN w.config.yaxis})>>,
                    !.xlabel = <<"sum of", w.config.zlabel>>,
                    !.ylabel = <<w.config.ylabel>>,
                    !.lines = <<[on |-> "01", xdata |-> AxisSum(w.config.z, 1),
                                 ydata |-> w.config.yaxis]>>],
            !.lines = <<[on |-> "01", xdata |-> AxisSum(w.config.z, 1),
                         ydata |-> w.config.yaxis],
                        [on |-> "10", xdata |-> w.config.xaxis,
                         ydata |-> AxisSum(w.config.z, 0)]>>,
            !.datacursor = "attached"]
    ELSE [remove_plots(w) EXCEPT
            !.cursor_active = TRUE,
            !.ax["10"] =
                [EmptyAxes EXCEPT
                    !.ylim = <<0, 105 * Max({w.config.z[r][c] :
                                 r \in DOMAIN w.config.z, c \in DOMAIN w.config.z[1]})>>,
                    !.xlabel = <<w.config.xlabel>>,
                    !.ylabel = <<w.config.zlabel>>],
            !.ax["01"] =
                [EmptyAxes EXCEPT
                    !.xlim = <<0, 105 * Max({w.config.z[r][c] :
                                 r \in DOMAIN w.config.z, c \in DOMAIN w.config.z[1]})>>,
                    !.xlabel = <<w.config.zlabel>>,
                    !.ylabel = <<w.config.ylabel>>]]

toggle_crossNoDisconnect(w) ==
    [(IF w.crossbtn
      THEN toggle_sum([remove_plots(w) EXCEPT
                          !.ax = [p \in {"00", "01", "10"} |-> EmptyAxes],
                          !.sum_enabled = TRUE,
                          !.handlers = @ + 1,
                          !.cid = 1,
                          !.connected = TRUE,
                          !.cursor_active = TRUE])
      ELSE [remove_plots(w) EXCEPT
               !.ax = [p \in {"00"} |-> EmptyAxes],
               !.sum_enabled = FALSE,
               !.connected = FALSE])
     EXCEPT !.ax["00"] = [@ EXCEPT !.mesh = TRUE,
                                   !.xlabel = <<w.config.xlabel>>,
                                   !.ylabel = <<w.config.ylabel>>]]

\* lines 529-560: the figure is cleared and the handler that self._cid names
\* is disconnected (lines 532-533); then the layout is made anew, 2 x 2 with
\* a click handler connected, or the heatmap alone; lines 553-558 draw the
\* heatmap on ax[0, 0]
toggle_cross(w) ==
    [(IF w.crossbtn
      THEN toggle_sum([remove_plots(w) EXCEPT
                          !.ax = [p \in {"00", "01", "10"} |-> EmptyAxes],
                          !.sum_enabled = TRUE,
                          !.handlers = (IF w.cid # 0 /\ w.connected THEN @ - 1 ELSE @) + 1,
                          !.cid = 1,
                          !.connected = TRUE,
                          !.cursor_active = TRUE])
      ELSE [remove_plots(w) EXCEPT
               !.ax = [p \in {"00"} |-> EmptyAxes],
               !.sum_enabled = FALSE,
               !.handlers = IF w.cid # 0 /\ w.connected THEN @ - 1 ELSE @,
               !.connected = FALSE])
     EXCEPT !.ax["00"] = [@ EXCEPT !.mesh = TRUE,
                                   !.xlabel = <<w.config.xlabel>>,
                                   !.ylabel = <<w.config.ylabel>>]]

clickAnyMode(w, inaxes, xdata, ydata) ==
    IF inaxes = "00"
    THEN [remove_plots(w) EXCEPT
            !.ax["01"].lines =
                Append(@, [on |-> "01",
                           xdata |-> [r \in DOMAIN w.config.z |->
                                        w.config.z[r][argmin(w.config.xaxis, xdata) + 1]],
                           ydata |-> w.config.yaxis]),
            !.config.xpos = <<w.config.xaxis[argmin(w.config.xaxis, xdata) + 1]>>,
            !.config.ypos = <<w.config.yaxis[argmin(w.config.yaxis, ydata) + 1]>>,
            !.datacursor = "attached"]
    ELSE w

\* lines 604-628, the handler of button_press_event: a press over the
\* heatmap while Sum is unchecked draws the slices through column xpos and
\* row ypos, titles the panels and records the clicked axis values
click(w, inaxes, xdata, ydata) ==
    IF inaxes = "00" /\ ~w.sumbtn
    THEN [remove_plots(w) EXCEPT
            !.ax["01"].lines =
                Append(@, [on |-> "01",
                           xdata |-> [r \in DOMAIN w.config.z |->
                                        w.config.z[r][argmin(w.config.xaxis, xdata) + 1]],
                           ydata |-> w.config.yaxis]),
            !.ax["01"].title =
                <<w.config.xlabel, w.config.xaxis[argmin(w.config.xaxis, xdata) + 1]>>,
            !.config.xpos = <<w.config.xaxis[argmin(w.config.xaxis, xdata) + 1]>>,
            !.ax["10"].lines =
                Append(@, [on |-> "10", xdata |-> w.config.xaxis,
                           ydata |-> w.config.z[argmin(w.config.yaxis, ydata) + 1]]),
            !.ax["10"].title =
                <<w.config.ylabel, w.config.yaxis[argmin(w.config.yaxis, ydata) + 1]>>,
            !.config.ypos = <<w.config.yaxis[argmin(w.config.yaxis, ydata) + 1]>>,
            !.lines =
                <<[on |-> "01",
                   xdata |-> [r \in DOMAIN w.config.z |->
                                w.config.z[r][argmin(w.config.xaxis, xdata) + 1]],
                   ydata |-> w.config.yaxis],
                  [on |-> "10", xdata |-> w.config.xaxis,
                   ydata |-> w.config.z[argmin(w.config.yaxis, ydata) + 1]]>>,
            !.datacursor = "attached"]
    ELSE w

\* lines 423-485: the widget of a dataset d, both checkboxes unchecked, after
\* the calls of toggle_cross and toggle_sum that end the constructor
Widget(d) ==
    toggle_sum(toggle_cross(
        [crossbtn |-> FALSE, sumbtn |-> FALSE, sum_enabled |-> TRUE,
         config |-> [xaxis |-> d.x, yaxis |-> d.y, z |-> d.z,
                     xlabel |-> "gate", ylabel |-> "field", zlabel |-> "cond",
                     xpos |-> <<>>, ypos |-> <<>>],
         ax |-> <<>>, lines |-> <<>>, datacursor |-> "none",
         cid |-> 0, connected |-> FALSE, handlers |-> 0, cursor_active |-> FALSE]))

\* the user flips the 'Cross section' checkbox: line 469
ToggleCross ==
    /\ cw' = toggle_cross([cw EXCEPT !.crossbtn = ~@])
    /\ ev' = [kind |-> "toggle_cross", inaxes |-> "", xdata |-> 0, ydata |-> 0,
             err |-> "none", savename |-> <<>>]
    /\ UNCHANGED <<plotvars, gridvars, wr>>

\* the user flips the 'Sum' checkbox, which is enabled: line 470
ToggleSum ==
    /\ cw.sum_enabled
    /\ cw' = toggle_sum([cw EXCEPT !.sumbtn = ~@])
    /\ ev' = [kind |-> "toggle_sum", inaxes |-> "", xdata |-> 0, ydata |-> 0,
             err |-> "none", savename |-> <<>>]
    /\ UNCHANGED <<plotvars, gridvars, wr>>

\* a button press reaches a connected handler (line 542), over the axes
\* inaxes or over none of them ("")
Click(inaxes, xdata, ydata) ==
    /\ cw.handlers > 0
    /\ cw' = click(cw, inaxes, xdata, ydata)
    /\ ev' = [kind |-> "click", inaxes |-> inaxes, xdata |-> xdata, ydata |-> ydata,
              err |-> "none", savename |-> <<>>]
    /\ UNCHANGED <<plotvars, gridvars, wr>>

\* lines 507-523: the file name that save_subplot_x (axletter "x") or
\* save_subplot_y (axletter "y") appends to the default title; the config
\* has no 'xpos' or 'ypos' key until a click has recorded one
save_subplot_xy(w, axletter) ==
    IF w.sumbtn
    THEN [err |-> "none",
          savename |-> <<"sum over", IF axletter = "x" THEN w.config.xlabel
                                                       ELSE w.config.ylabel>>]
    ELSE IF (IF axletter = "x" THEN w.config.xpos ELSE w.config.ypos) = <<>>
         THEN [err |-> "KeyError", savename |-> <<>>]
         ELSE [err |-> "none",
               savename |-> IF axletter = "x"
                            THEN <<"cross section", w.config.xlabel, w.config.xpos[1]>>
                            ELSE <<"cross section", w.config.ylabel, w.config.ypos[1]>>]

\* the user presses 'Save Vert' (axletter "x") or 'Save Horz' ("y"), lines
\* 473-474; both buttons are enabled and disabled together with the 'Sum'
\* checkbox (lines 535-537, 546-548)
Save(axletter) ==
    /\ cw.sum_enabled
    /\ ev' = [kind |-> "save", inaxes |-> IF axletter = "x" THEN "01" ELSE "10",
              xdata |-> 0, ydata |-> 0,
              err |-> save_subplot_xy(cw, axletter).err,
              savename |-> save_subplot_xy(cw, axletter).savename]
    /\ UNCHANGED <<cw, plotvars, gridvars, wr>>

\* a widget opened on the heatmap x = [0, 2, 4, 6, 8], y = [0, 5, 10], or on
\* a heatmap of 2 x 2 cells
ClickInit ==
    /\ Construct(IntArg(1), <<>>)
    /\ GridIdle
    /\ \E d \in { [x |-> <<0, 2, 4, 6, 8>>, y |-> <<0, 5, 10>>,
                   z |-> <<<<1, 2, 3, 4, 5>>, <<7, 6, 9, 8, 4>>, <<2, 3, 1, 5, 6>>>>],
                  [x |-> <<1, 2>>, y |-> <<0, 2>>, z |-> <<<<3, 1>>, <<2, 4>>>>] } :
          cw = Widget(d)
    /\ ev = [kind |-> "init", inaxes |-> "", xdata |-> 0, ydata |-> 0,
             err |-> "none", savename |-> <<>>]
    /\ wr = [pc |-> "none"]

NextClick ==
    \/ ToggleCross
    \/ ToggleSum
    \/ \E inaxes \in {"00", "01", "10", ""}, xdata \in {-1, 1, 3, 5, 8}, ydata \in {1, 7, 11} :
          Click(inaxes, xdata, ydata)
    \/ \E axletter \in {"x", "y"} : Save(axletter)

SpecClick == ClickInit /\ [][NextClick]_vars
----------------------------------------------------------------------------
(* The measurement wrappers do1d, do1dDiagonal and do2d of utils/wrappers.py,
   from the end of the measurement loop on: the static plot is set up trace
   by trace, saved and the wrapper returns *)

MaxMeas == 3

\* one round of the loop of _plot_setup(data, inst_meas, useQT=False) over
\* simple parameters, lines 70 and 89-103: plot.add(array, subplot=j + 1),
\* then the grid and the axes title of subplots[j]; an exception of add
\* leaves the wrapper
SetupAdd ==
    /\ wr.pc = "setup"
    /\ wr.j < wr.n
    /\ add_to_plot(Config(<<wr.j + 1>>, wr.data, NoLabels))
    /\ wr' = IF last'.err = "none"
             THEN [wr EXCEPT !.j = @ + 1]
             ELSE [wr EXCEPT !.pc = "raised", !.err = last'.err]
    /\ UNCHANGED gridvars
    /\ UNCHANGED <<cw, ev>>

\* staticplot.save(staticplot.get_default_title() + '.pdf'), lines 129, 161
\* and 198, after _plot_setup returned the plot (line 104)
SaveStatic ==
    /\ wr.pc = "setup"
    /\ wr.j = wr.n
    /\ wr' = [wr EXCEPT !.pc = "saved", !.saved = <<get_default_title(traces), ".pdf">>]
    /\ last' = Last("save", "none", <<get_default_title(traces), ".pdf">>, 1)
    /\ UNCHANGED <<shape, figsize, subplots, traces, title, customized>>
    /\ UNCHANGED gridvars
    /\ UNCHANGED <<cw, ev>>

\* return plot, data: lines 130, 162 and 199
Return ==
    /\ wr.pc = "saved"
    /\ wr' = [wr EXCEPT !.pc = "returned"]
    /\ UNCHANGED <<plotvars, gridvars, cw, ev>>

\* the wrapper has left its try statement (lines 124-127, 156-159, 193-196)
\* and _plot_setup has made staticplot = MatPlot() (line 69), a plot of one
\* subplot: the loop ran to its end, or was interrupted after any number of
\* points, and the data set holds NaN where nothing was measured
WrapInit ==
    /\ Construct(IntArg(Max({0, 1})), <<>>)
    /\ GridIdle
    /\ cw = [crossbtn |-> FALSE, sumbtn |-> FALSE]
    /\ ev = [kind |-> "none"]
    /\ \E kind \in {"do1d", "do1dDiagonal", "do2d"}, n \in 1..MaxMeas, fill \in 0..4 :
          /\ kind # "do2d" => fill < 4
          /\ wr = [pc |-> "setup", kind |-> kind, n |-> n, j |-> 0,
                   interrupted |-> TRUE, err |-> "none", saved |-> <<>>,
                   data |->
                     IF kind = "do2d"
                     THEN Data(R2(<<IF fill > 0 THEN Num(0) ELSE NaN, IF fill > 1 THEN Num(1) ELSE NaN>>,
                                  <<IF fill > 2 THEN Num(0) ELSE NaN, IF fill > 3 THEN Num(1) ELSE NaN>>),
                               R1(<<IF fill > 0 THEN Num(0) ELSE NaN, IF fill > 2 THEN Num(2) ELSE NaN>>),
                               R2(<<IF fill > 0 THEN Num(1) ELSE NaN, IF fill > 1 THEN Num(2) ELSE NaN>>,
                                  <<IF fill > 2 THEN Num(3) ELSE NaN, IF fill > 3 THEN Num(4) ELSE NaN>>))
                     ELSE Data(R1(<<IF fill > 0 THEN Num(0) ELSE NaN, IF fill > 1 THEN Num(2) ELSE NaN,
                                    IF fill > 2 THEN Num(4) ELSE NaN>>),
                               R1(<<IF fill > 0 THEN Num(1) ELSE NaN, IF fill > 1 THEN Num(3) ELSE NaN,
                                    IF fill > 2 THEN Num(2) ELSE NaN>>),
                               R0)]
             \/ /\ fill = (IF kind = "do2d" THEN 4 ELSE 3)
                /\ wr = [pc |-> "setup", kind |-> kind, n |-> n, j |-> 0,
                         interrupted |-> FALSE, err |-> "none", saved |-> <<>>,
                         data |->
                           IF kind = "do2d"
                           THEN Data(R2(<<Num(0), Num(1)>>, <<Num(0), Num(1)>>), R1(<<Num(0), Num(2)>>),
                                     R2(<<Num(1), Num(2)>>, <<Num(3), Num(4)>>))
                           ELSE Data(R1(<<Num(0), Num(2), Num(4)>>), R1(<<Num(1), Num(3), Num(2)>>), R0)]

NextWrap ==
    \/ SetupAdd
    \/ SaveStatic
    \/ Return

SpecWrap == WrapInit /\ [][NextWrap]_vars
----------------------------------------------------------------------------
(* The session state of utils/wrappers.py: CURRENT_EXPERIMENT, the location
   provider and the command log of IPython, under init and show_num *)

MaxInits == 3

\* a faulty init, which issues %logstart whether or not logging is enabled;
\* C32 fails with it
initRestart(mainfolder, sample_name) ==
    /\ wr.pc = "session"
    /\ wr.inits < MaxInits
    /\ wr' = IF sample_name.sep
             THEN [wr EXCEPT !.op = "init", !.err = "TypeError"]
             ELSE IF ~wr.ipython
                  THEN [wr EXCEPT !.op = "init", !.err = "RuntimeWarning",
                                  !.mainfolder = mainfolder.path,
                                  !.sample_name = sample_name.name,
                                  !.init = TRUE,
                                  !.exp_folder = <<mainfolder.path, sample_name.name, "">>,
                                  !.provider = <<mainfolder.path, sample_name.name, "">>]
                  ELSE [wr EXCEPT !.op = "init", !.err = "none",
                                  !.mainfolder = mainfolder.path,
                                  !.sample_name = sample_name.name,
                                  !.init = TRUE,
                                  !.exp_folder = <<mainfolder.path, sample_name.name, "">>,
                                  !.provider = <<mainfolder.path, sample_name.name, "">>,
                                  !.inits = @ + 1,
                                  !.logstarts = @ + 1,
                                  !.logging_enabled = TRUE]
    /\ UNCHANGED <<plotvars, gridvars, cw, ev>>

\* init(mainfolder, sample_name), lines 13-61.  mainfolder is a path and
\* whether it was written with a trailing separator, which lines 24-25
\* strip; sample_name is a name and whether it holds a separator (lines
\* 21-22).  The entries of CURRENT_EXPERIMENT and the location provider are
\* set (lines 29-47) before IPython is looked for (lines 49-53);
\* %logstart is issued when logging is not enabled yet (lines 56-61).
\* inits counts the calls that reached the logging step.
init(mainfolder, sample_name) ==
    /\ wr.pc = "session"
    /\ wr.inits < MaxInits
    /\ wr' = IF sample_name.sep
             THEN [wr EXCEPT !.op = "init", !.err = "TypeError"]
             ELSE IF ~wr.ipython
                  THEN [wr EXCEPT !.op = "init", !.err = "RuntimeWarning",
                                  !.mainfolder = mainfolder.path,
                                  !.sample_name = sample_name.name,
                                  !.init = TRUE,
                                  !.exp_folder = <<mainfolder.path, sample_name.name, "">>,
                                  !.provider = <<mainfolder.path, sample_name.name, "">>]
                  ELSE [wr EXCEPT !.op = "init", !.err = "none",
                                  !.mainfolder = mainfolder.path,
                                  !.sample_name = sample_name.name,
                                  !.init = TRUE,
                                  !.exp_folder = <<mainfolder.path, sample_name.name, "">>,
                                  !.provider = <<mainfolder.path, sample_name.name, "">>,
                                  !.inits = @ + 1,
                                  !.logstarts = IF wr.logging_enabled THEN @ ELSE @ + 1,
                                  !.logging_enabled = TRUE]
    /\ UNCHANGED <<plotvars, gridvars, cw, ev>>

\* show_num(id), lines 202-227.  Line 212 reads getattr(CURRENT_EXPERIMENT,
\* "init", True): CURRENT_EXPERIMENT is a dict, whose keys are no
\* attributes, so the default True comes back and line 213 is not reached.
\* The data is loaded from the location the provider formats (lines
\* 215-218); arrays tells whether the data loaded has an array to plot, for
\* which line 224 reads CURRENT_EXPERIMENT["sample_name"].
show_num(id, arrays) ==
    /\ wr.pc = "session"
    /\ wr' = [wr EXCEPT !.op = "show_num",
                        !.loaded = <<wr.provider, id>>,
                        !.err = IF arrays /\ wr.sample_name = ""
                                THEN "KeyError" ELSE "none"]
    /\ UNCHANGED <<plotvars, gridvars, cw, ev>>

\* the module has been imported (lines 10-11): CURRENT_EXPERIMENT holds
\* logging_enabled = False alone, and data sets have the location provider
\* that qcodes gives them; the session runs in IPython or does not
SessionInit ==
    /\ Construct(IntArg(1), <<>>)
    /\ GridIdle
    /\ cw = [crossbtn |-> FALSE, sumbtn |-> FALSE]
    /\ ev = [kind |-> "none"]
    /\ \E ipython \in BOOLEAN :
          wr = [pc |-> "session", ipython |-> ipython, init |-> FALSE,
                mainfolder |-> "", sample_name |-> "", exp_folder |-> <<>>,
                provider |-> <<"default">>, logging_enabled |-> FALSE,
                logstarts |-> 0, inits |-> 0, op |-> "import", err |-> "none",
                loaded |-> <<>>]

NextSession ==
    \/ \E path \in {"/data", "/scratch"}, trailing \in BOOLEAN,
          name \in {"s1", "s2"}, sep \in BOOLEAN :
          init([path |-> path, trailing |-> trailing], [name |-> name, sep |-> sep])
    \/ \E id \in 1..2, arrays \in BOOLEAN : show_num(id, arrays)

SpecSession == SessionInit /\ [][NextSession]_vars
----------------------------------------------------------------------------
(* Properties *)

\* the step is a call of add (add_to_plot)
AddStep == last'.op = "add"

\* the step is a call of update_plot
UpdateStep == last'.op = "update"

\* C1: an add whose subplot number is not in 1..N, for a grid of N subplots,
\* ends with an error and leaves the trace registry, every subplot and the
\* title as they were.
C1_OutsideGridRejected ==
    [][(AddStep /\ last'.arg # <<>> /\ last'.arg[1] \notin 1..Len(subplots))
          => /\ last'.err = "IndexError"
             /\ traces' = traces
             /\ subplots' = subplots
             /\ title' = title]_vars

\* the positions of the finite samples of a 1-D array
FiniteAt(a) == {i \in DOMAIN a : ~a[i].nan}

StrictlyBetween(lo, x, hi) ==
    /\ ~lo.nan /\ ~x.nan /\ ~hi.nan
    /\ \/ lo.h < x.h /\ x.h < hi.h
       \/ hi.h < x.h /\ x.h < lo.h

\* the samples of a all lie strictly between the boundaries next to them
SamplesInside(a, out) ==
    /\ Len(out) = Len(a) + 1
    /\ \A i \in FiniteAt(a) : StrictlyBetween(out[i], a[i], out[i + 1])

StrictlyIncreasing(a) ==
    /\ FiniteAt(a) = DOMAIN a
    /\ \A i \in 1..(Len(a) - 1) : a[i].h < a[i + 1].h

\* C2: for an axis array with at least two finite samples the corrected
\* array has one entry more than the input, and every sample lies strictly
\* between the two boundaries next to it, whatever the spacing.  Stated for
\* the plainest such arrays: every sample finite, the samples
\* strictly increasing.
C2_SamplesBetweenBoundaries ==
    (gc_out.err # "pending" /\ Len(AxisSlice(gc_arr, gc_k)) >= 2
                            /\ StrictlyIncreasing(AxisSlice(gc_arr, gc_k)))
        => /\ gc_out.err = "none"
           /\ SamplesInside(AxisSlice(gc_arr, gc_k), gc_out.v)

\* one of the arrays supplied in cfg has no finite sample
Undrawable(cfg) ==
    \E role \in {"x", "y", "z"} : cfg[role].ndim # 0 /\ Finite(cfg[role].v) = {}

\* trace i of the registry trs is a mesh trace with an entirely invalid array
MaskedMesh(trs, i) == Has(trs[i].config, "z") /\ Undrawable(trs[i].config)

\* some subplot of sp holds a mesh drawn for trace i
MeshOwnedBy(sp, i) ==
    \E k \in DOMAIN sp : \E j \in DOMAIN sp[k].artists :
        sp[k].artists[j].kind = "mesh" /\ sp[k].artists[j].owner = i

\* the mesh traces of trs that are drawn on subplot k
MeshTracesOn(trs, k) ==
    {i \in DOMAIN trs : trs[i].plot_object.kind = "mesh" /\ trs[i].plot_object.axes = k}

ColorScale(ax) == <<ax.qcodes_colorbar, ax.ncolorbars>>

\* the traces a successful step has drawn: the new one for add, all for update
DrawnInStep == IF AddStep THEN {Len(traces')} ELSE DOMAIN traces'

\* the look-only mask check: draw_pcolormesh of an undrawable config on any
\* subplot as it is now gives the 'not drawn' sentinel, no error, and the
\* subplot as it was
MaskedDrawIsNoOp ==
    \A cfg \in {c \in Configs : Has(c, "z") /\ Undrawable(c)} :
        \A k \in DOMAIN subplots :
            draw_pcolormesh(subplots[k], cfg, Len(traces) + 1, k)
                = [err |-> "none", ax |-> subplots[k], po |-> NotDrawn]

\* C3: a mesh trace with an entirely invalid x, y or z array is not drawn:
\* the draw returns False without raising, no mesh of the trace is on any
\* subplot, and the colour scale of a subplot whose only drawn candidates
\* are such traces is neither created nor changed.
C3_MaskedMeshNotDrawn ==
    [][/\ MaskedDrawIsNoOp
       /\ ((AddStep \/ UpdateStep) /\ last'.err = "none")
            => /\ \A i \in DrawnInStep : MaskedMesh(traces', i)
                     => /\ traces'[i].plot_object = NotDrawn
                        /\ ~MeshOwnedBy(subplots', i)
               /\ \A k \in DOMAIN subplots' :
                     (\A i \in DrawnInStep :
                          (Has(traces'[i].config, "z")
                             /\ AxesOf(Len(subplots'), traces'[i].config) = k)
                          => MaskedMesh(traces', i))
                     => ColorScale(subplots'[k]) = ColorScale(subplots[k])]_vars

\* an undrawable mesh trace was added to a subplot that has a colour scale,
\* and a later update left it undrawn
C3_Witness ==
    /\ last.op = "update" /\ last.err = "none"
    /\ \E i \in DOMAIN traces :
          /\ MaskedMesh(traces, i)
          /\ traces[i].plot_object = NotDrawn
          /\ subplots[AxesOf(Len(subplots), traces[i].config)].qcodes_colorbar.exists

\* the config of the trace that a successful add has just registered
Added == traces'[Len(traces')].config

\* the label that the config gives for an axis: what the caller wrote, else
\* what the data array carries
ExpectedLabel(cfg, axletter) ==
    << IF ConfigLabel(cfg, axletter) # None THEN ConfigLabel(cfg, axletter)
                                            ELSE cfg[axletter].label,
       IF ConfigUnit(cfg, axletter) # None THEN ConfigUnit(cfg, axletter)
                                           ELSE cfg[axletter].unit >>

\* the axis label of ax shows the given label, or the given unit
ShowsLabel(ax, axletter, label) ==
    AxisLabel(ax, axletter) # <<>> /\ AxisLabel(ax, axletter)[1] = label

ShowsUnit(ax, axletter, unit) ==
    Len(AxisLabel(ax, axletter)) = 2 /\ AxisLabel(ax, axletter)[2] = unit

\* C4: over the add calls made on a plot, an add never changes an axis
\* label that is already there, on any subplot; and on an axis that had no
\* label, a label or a unit written in the trace config is what the new
\* label shows.
C4_LabelsKeptExplicitWins ==
    [][(AddStep /\ last'.err = "none")
          => \A k \in DOMAIN subplots : \A axletter \in {"x", "y"} :
                /\ AxisLabel(subplots[k], axletter) # <<>>
                     => AxisLabel(subplots'[k], axletter) = AxisLabel(subplots[k], axletter)
                /\ (AxisLabel(subplots[k], axletter) = <<>>
                      /\ k = AxesOf(Len(subplots), Added))
                     => /\ ConfigLabel(Added, axletter) # None
                             => ShowsLabel(subplots'[k], axletter,
                                           ConfigLabel(Added, axletter))
                        /\ ConfigUnit(Added, axletter) # None
                             => ShowsUnit(subplots'[k], axletter,
                                          ConfigUnit(Added, axletter))]_vars

\* two traces were added to subplot 1: the first with data for x and a
\* label written for y, the second with another label written for x
C4_Witness ==
    /\ last.op = "add" /\ last.err = "none"
    /\ Len(traces) = 2
    /\ \A i \in 1..2 : AxesOf(Len(subplots), traces[i].config) = 1
    /\ traces[1].config.ylabel = "Signal"
    /\ traces[2].config.xlabel = "Gate voltage"
    /\ subplots[1].xlabel = <<"gate", "V">>
    /\ subplots[1].ylabel[1] = "Signal"

\* C5: an add gives a label to each axis (x, y) that had none and for which
\* the trace config has data, whether or not the other axis of the subplot
\* already had a label.
C5_EachAxisLabelled ==
    [][(AddStep /\ last'.err = "none")
          => \A axletter \in {"x", "y"} :
                (AxisLabel(subplots[AxesOf(Len(subplots), Added)], axletter) = <<>>
                   /\ Has(Added, axletter))
                => AxisLabel(subplots'[AxesOf(Len(subplots), Added)], axletter)
                       = ExpectedLabel(Added, axletter)]_vars

\* the view limits, the data bounds and the autoscale state of every subplot
Limits(sp) == [k \in DOMAIN sp |-> <<sp[k].view, sp[k].dataLim, sp[k].autoscale>>]

\* the kinds of artifact on an axes
KindsOn(ax) == {ax.artists[j].kind : j \in DOMAIN ax.artists}

C7_ClearLeavesFreshGrid ==
    last.op = "clear"
        => /\ last.err = "none"
           /\ traces = <<>>
           /\ subplots = FlatGrid(shape)

\* C8: a plot made from a count n has ceil(n / max_subplot_columns) rows and
\* min(n, max_subplot_columns) columns (count 4 gives (2, 3)), and its
\* subplots are one flat sequence of rows * columns entries, reached by the
\* keys 0 .. rows * columns - 1 in order.
C8_GridOfCount ==
    (last.op \in {"init", "clear"} /\ last.err = "none" /\ last.arg.sub.kind = "int")
        => /\ shape[1] * max_subplot_columns >= last.arg.sub.n
           /\ (shape[1] - 1) * max_subplot_columns < last.arg.sub.n
           /\ shape[2] = IF last.arg.sub.n < max_subplot_columns
                         THEN last.arg.sub.n ELSE max_subplot_columns
           /\ (last.arg.sub.n = 4 => shape = <<2, 3>>)
           /\ Len(subplots) = shape[1] * shape[2]
           /\ \A key \in 0..(shape[1] * shape[2] - 1) :
                 /\ GetItem(Len(subplots), key) = key + 1
                 /\ subplots[key + 1].add_subplot = key + 1

\* a plot was made from the count 4
C8_Witness ==
    /\ last.op = "init" /\ last.arg.sub = IntArg(4)
    /\ shape = <<2, 3>>
    /\ Len(subplots) = 6

\* the meshes on an axes
MeshesOn(ax) == {j \in DOMAIN ax.artists : ax.artists[j].kind = "mesh"}

\* C9: a subplot never has more than one colour scale: a subplot with a
\* mesh has exactly one, and a step that finds a colour scale on a subplot
\* and does not clear the plot leaves the subplot with that one.
C9_OneColorScale ==
    /\ [](\A k \in DOMAIN subplots :
             /\ subplots[k].ncolorbars <= 1
             /\ subplots[k].qcodes_colorbar.exists <=> subplots[k].ncolorbars = 1
             /\ MeshesOn(subplots[k]) # {} => subplots[k].ncolorbars = 1)
    /\ [][last'.op # "clear"
            => \A k \in DOMAIN subplots :
                  subplots[k].ncolorbars = 1 => subplots'[k].ncolorbars = 1]_vars

\* two mesh traces were drawn on one subplot and drawn again by an update
C9_Witness ==
    /\ last.op = "update" /\ last.err = "none"
    /\ \E k \in DOMAIN subplots :
          /\ Cardinality(MeshesOn(subplots[k])) = 2
          /\ subplots[k].ncolorbars = 1

\* the least and the greatest finite value of the z array of a config
ZRange(cfg) ==
    << F(CHOOSE m \in Finite(cfg.z.v) : \A n \in Finite(cfg.z.v) : m <= n),
       F(CHOOSE m \in Finite(cfg.z.v) : \A n \in Finite(cfg.z.v) : m >= n) >>

\* the drawn mesh trace of subplot k that is last in the registry
LastMeshOn(trs, k) ==
    CHOOSE i \in MeshTracesOn(trs, k) : \A j \in MeshTracesOn(trs, k) : j <= i

\* C10: after an add that drew a mesh, the colour limits of its subplot are
\* the least and greatest finite z value of that trace; after an update,
\* the colour limits of every subplot with drawn meshes are those of the
\* mesh trace drawn last in registry order.
C10_ColorLimitsOfLastDraw ==
    [][/\ (AddStep /\ last'.err = "none" /\ traces'[Len(traces')].plot_object.kind = "mesh")
            => subplots'[traces'[Len(traces')].plot_object.axes].qcodes_colorbar.clim
                   = ZRange(Added)
       /\ (UpdateStep /\ last'.err = "none")
            => \A k \in DOMAIN subplots' :
                  MeshTracesOn(traces', k) # {}
                  => subplots'[k].qcodes_colorbar.clim
                         = ZRange(traces'[LastMeshOn(traces', k)].config)]_vars

\* two mesh traces with different z ranges are drawn on one subplot, and
\* after an update the colour limits are those of the second
C10_Witness ==
    /\ last.op = "update" /\ last.err = "none"
    /\ \E k \in DOMAIN subplots :
          /\ MeshTracesOn(traces, k) = {1, 2}
          /\ ZRange(traces[1].config) # ZRange(traces[2].config)
          /\ subplots[k].qcodes_colorbar.clim = ZRange(traces[2].config)

\* the colour-scale label that a config gives: what the caller wrote for z,
\* else what the z array carries
ExpectedZLabel(cfg) ==
    << IF cfg.zlabel # None THEN cfg.zlabel ELSE cfg.z.label,
       IF cfg.zunit # None THEN cfg.zunit ELSE cfg.z.unit >>

\* the mesh traces of trs that a step has drawn on subplot k
DrawnOn(trs, k) == {i \in DrawnInStep : i \in MeshTracesOn(trs, k)}

\* the first of them in registry order
FirstDrawnOn(trs, k) == CHOOSE i \in DrawnOn(trs, k) : \A j \in DrawnOn(trs, k) : i <= j

\* C11: the label of a colour scale is resolved once.  A step other than
\* clear leaves the label of a colour scale that is there as it is; and a
\* colour scale made by an add or an update is labelled from the config of
\* the mesh trace whose draw made it, with the zlabel and the zunit written
\* in that config taking the place of those of the z array.
C11_ScaleLabelResolvedOnce ==
    [][last'.op # "clear"
          => \A k \in DOMAIN subplots :
                /\ subplots[k].qcodes_colorbar.exists
                     => /\ subplots'[k].qcodes_colorbar.exists
                        /\ subplots'[k].qcodes_colorbar.label
                               = subplots[k].qcodes_colorbar.label
                /\ (~subplots[k].qcodes_colorbar.exists
                       /\ subplots'[k].qcodes_colorbar.exists)
                     => /\ DrawnOn(traces', k) # {}
                        /\ subplots'[k].qcodes_colorbar.label
                               = ExpectedZLabel(traces'[FirstDrawnOn(traces', k)].config)]_vars

\* a subplot has two mesh traces: the first gave the colour scale the label
\* of its z array, the second has a label and a unit written for z, and
\* both were drawn again by an update
C11_Witness ==
    /\ last.op = "update" /\ last.err = "none"
    /\ Len(traces) = 2
    /\ MeshTracesOn(traces, 1) = {1, 2}
    /\ traces[1].config.zlabel = None
    /\ traces[2].config.zlabel = "Conductance"
    /\ subplots[1].qcodes_colorbar.label = <<"cond", "S">>

\* the mesh traces of trs whose last draw returned the 'not drawn' sentinel
NotDrawnTraces(trs) ==
    {i \in DOMAIN trs : Has(trs[i].config, "z") /\ trs[i].plot_object = NotDrawn}

\* C12: a mesh trace that was not drawn stays registered, an update of a
\* plot that has such a trace ends without error, and the update made when
\* every array of the trace has a valid sample stores a drawn mesh for it.
C12_NotDrawnRetried ==
    [][/\ last'.op # "clear" => NotDrawnTraces(traces) \subseteq DOMAIN traces'
       /\ (UpdateStep /\ NotDrawnTraces(traces) # {})
            => /\ last'.err = "none"
               /\ \A i \in NotDrawnTraces(traces) :
                     ~Undrawable(traces[i].config)
                     => /\ traces'[i].plot_object.kind = "mesh"
                        /\ MeshOwnedBy(subplots', i)]_vars


----------------------------------------------------------------------------
(* C13 *)

\* C13: an add replaces the title text only if the text still equals the
\* default title that held before this add, and then with the new default;
\* once the caller has set a title that differs from the default, no later
\* add changes the title
C13_TitleFollowsDefaultUntilCustomized ==
    [][AddStep =>
          /\ title' # title => /\ title = get_default_title(traces)
                               /\ title' = get_default_title(traces')
          /\ customized => title' = title]_vars

----------------------------------------------------------------------------
(* C14 *)

\* some subplot of sp holds an artist of the given kind drawn for trace i
ArtistOwnedBy(sp, i, kind) ==
    \E k \in DOMAIN sp : \E j \in DOMAIN sp[k].artists :
        sp[k].artists[j].kind = kind /\ sp[k].artists[j].owner = i

\* trace i of trs is rendered on sp as its config asks: with z as a mesh, or
\* not drawn; without z as a line
KindFollowsZ(trs, sp, i) ==
    IF Has(trs[i].config, "z")
    THEN \/ trs[i].plot_object = NotDrawn /\ ~ArtistOwnedBy(sp, i, "mesh")
         \/ trs[i].plot_object.kind = "mesh" /\ ArtistOwnedBy(sp, i, "mesh")
    ELSE trs[i].plot_object.kind = "line" /\ ArtistOwnedBy(sp, i, "line")

\* C14: every registered trace whose config has z is a mesh or 'not drawn'
\* and every trace without z is a line, after the add and after every later
\* update; a registered trace keeps its kind
C14_TraceKindFollowsZ ==
    [][/\ \A i \in DOMAIN traces' : KindFollowsZ(traces', subplots', i)
       /\ last'.op # "clear"
            => \A i \in DOMAIN traces :
                  /\ i \in DOMAIN traces'
                  /\ Has(traces'[i].config, "z") = Has(traces[i].config, "z")
                  /\ (traces'[i].plot_object.kind = "line")
                        = (traces[i].plot_object.kind = "line")]_vars

\* an update has redrawn a plot that holds a line and a drawn mesh
C14_Witness ==
    /\ last.op = "update"
    /\ last.err = "none"
    /\ \E i \in DOMAIN traces : traces[i].plot_object.kind = "line"
    /\ \E i \in DOMAIN traces : traces[i].plot_object.kind = "mesh"

----------------------------------------------------------------------------
(* C15 *)

\* the step between the first two samples, in half units
StepOf(a) == a[2].h - a[1].h

\* the finite samples of a come first, are two or more, and are spaced by
\* one and the same step: an axis being swept in uniform steps
UniformStep(a) ==
    /\ Cardinality(FiniteAt(a)) >= 2
    /\ FiniteAt(a) = 1..Cardinality(FiniteAt(a))
    /\ \A i \in 1..(Cardinality(FiniteAt(a)) - 1) : a[i + 1].h - a[i].h = StepOf(a)

\* the boundaries next to the finite samples of a are spaced by the step of
\* a, the first one half a step before the first sample
BoundariesSpaced(a, out) ==
    /\ Len(out) = Len(a) + 1
    /\ out[1] = F(a[1].h - StepOf(a) \div 2)
    /\ \A i \in FiniteAt(a) :
          /\ ~out[i].nan /\ ~out[i + 1].nan
          /\ out[i + 1].h - out[i].h = StepOf(a)

\* C15: for a uniformly spaced axis array of step d with two or more finite
\* samples the correction does not raise, consecutive boundaries are spaced
\* by exactly d, and the first boundary is a[0] - d/2
C15_UniformStepKept ==
    (gc_out.err # "pending" /\ Len(AxisSlice(gc_arr, gc_k)) >= 2
                            /\ UniformStep(AxisSlice(gc_arr, gc_k)))
        => /\ gc_out.err = "none"
           /\ BoundariesSpaced(AxisSlice(gc_arr, gc_k), gc_out.v)

\* three samples in uniform non-zero steps have been corrected
C15_Witness ==
    /\ gc_out.err = "none"
    /\ Len(AxisSlice(gc_arr, gc_k)) = MaxLen
    /\ FiniteAt(AxisSlice(gc_arr, gc_k)) = 1..MaxLen
    /\ UniformStep(AxisSlice(gc_arr, gc_k))
    /\ StepOf(AxisSlice(gc_arr, gc_k)) # 0

----------------------------------------------------------------------------
(* C16, C17 *)

\* the step is a button press that the handler accepts: over the heatmap,
\* with Sum unchecked
AcceptedClick == ev'.kind = "click" /\ ev'.inaxes = "00" /\ ~cw.sumbtn

Dist(a, b) == IF a < b THEN b - a ELSE a - b

\* i is the 0-based position of the entry of axis nearest to coord, the
\* lowest such position when several entries are equally near
IsNearest(axis, coord, i) ==
    /\ \A j \in DOMAIN axis : Dist(axis[i + 1], coord) <= Dist(axis[j], coord)
    /\ \A j \in 1..i : Dist(axis[j], coord) > Dist(axis[i + 1], coord)

\* the widget w shows and records the cell of column i and row j (0-based)
ShowsCell(w, i, j) ==
    /\ w.config.xpos = <<w.config.xaxis[i + 1]>>
    /\ w.config.ypos = <<w.config.yaxis[j + 1]>>
    /\ w.ax["01"].lines = <<[on |-> "01",
                             xdata |-> [r \in DOMAIN w.config.z |-> w.config.z[r][i + 1]],
                             ydata |-> w.config.yaxis]>>
    /\ w.ax["10"].lines = <<[on |-> "10", xdata |-> w.config.xaxis,
                             ydata |-> w.config.z[j + 1]]>>
    /\ w.ax["01"].title = <<w.config.xlabel, w.config.xaxis[i + 1]>>
    /\ w.ax["10"].title = <<w.config.ylabel, w.config.yaxis[j + 1]>>

\* C16: an accepted click at (xd, yd) selects on each axis independently the
\* index whose axis value is nearest to the click coordinate by absolute
\* difference, the lowest index winning ties; over x = [0, 2, 4, 6, 8] and
\* y = [0, 5, 10] a click at (3, 7) locates index 1 on x and index 1 on y
C16_NearestIndexSelected ==
    [][AcceptedClick =>
          /\ \E i \in 0..(Len(cw.config.xaxis) - 1), j \in 0..(Len(cw.config.yaxis) - 1) :
                /\ IsNearest(cw.config.xaxis, ev'.xdata, i)
                /\ IsNearest(cw.config.yaxis, ev'.ydata, j)
                /\ ShowsCell(cw', i, j)
          /\ (/\ cw.config.xaxis = <<0, 2, 4, 6, 8>>
              /\ cw.config.yaxis = <<0, 5, 10>>
              /\ ev'.xdata = 3
              /\ ev'.ydata = 7) => ShowsCell(cw', 1, 1)]_vars

\* the click at (3, 7) over x = [0, 2, 4, 6, 8], y = [0, 5, 10] was accepted
C16_Witness ==
    /\ ev.kind = "click" /\ ev.inaxes = "00" /\ ev.xdata = 3 /\ ev.ydata = 7
    /\ cw.config.xaxis = <<0, 2, 4, 6, 8>>
    /\ ~cw.sumbtn
    /\ cw.config.xpos = <<2>>
    /\ cw.config.ypos = <<5>>

\* C17: a click outside the heatmap panel, or any click while Sum is checked,
\* is ignored: the line artifacts, the panel titles, the annotation cursor
\* and the recorded xpos and ypos are unchanged
C17_IgnoredClickChangesNothing ==
    [][(ev'.kind = "click" /\ (ev'.inaxes # "00" \/ cw.sumbtn))
          => /\ cw'.ax = cw.ax
             /\ cw'.lines = cw.lines
             /\ cw'.datacursor = cw.datacursor
             /\ cw'.config = cw.config]_vars

\* a press over the heatmap arrived in sum mode, after a cell had been
\* clicked in cross-section mode
C17_Witness ==
    /\ ev.kind = "click" /\ ev.inaxes = "00"
    /\ cw.sumbtn
    /\ cw.config.xpos # <<>>
    /\ cw.lines # <<>>

----------------------------------------------------------------------------
(* C18, C19, C20 *)

\* the number of lines drawn on the panel p of the widget
LinesOn(p) == IF p \in DOMAIN cw.ax THEN Len(cw.ax[p].lines) ELSE 0

\* every tracked line is drawn on the axes it belongs to
TrackedAreDrawn ==
    \A i \in DOMAIN cw.lines :
        /\ cw.lines[i].on \in DOMAIN cw.ax
        /\ \E k \in DOMAIN cw.ax[cw.lines[i].on].lines :
              cw.ax[cw.lines[i].on].lines[k] = cw.lines[i]

\* C18: redraws are never additive: each auxiliary panel holds at most one
\* line, exactly one in sum mode and after an accepted click, none without
\* panels and in cross-section mode before any click; the tracked lines are
\* all currently drawn
C18_RedrawsNotAdditive ==
    /\ LinesOn("01") <= 1 /\ LinesOn("10") <= 1 /\ LinesOn("00") = 0
    /\ TrackedAreDrawn
    /\ Len(cw.lines) = LinesOn("01") + LinesOn("10")
    /\ (cw.crossbtn /\ cw.sumbtn) => (LinesOn("01") = 1 /\ LinesOn("10") = 1)
    /\ (ev.kind = "click" /\ ev.inaxes = "00" /\ ~cw.sumbtn)
          => (LinesOn("01") = 1 /\ LinesOn("10") = 1)
    /\ ~cw.crossbtn => (DOMAIN cw.ax = {"00"} /\ cw.lines = <<>>)
    /\ (cw.crossbtn /\ ~cw.sumbtn /\ cw.config.xpos = <<>>)
          => (LinesOn("01") = 0 /\ LinesOn("10") = 0)

\* the sums have been drawn on panels that showed the slices of a clicked
\* cell before
C18_Witness ==
    /\ cw.crossbtn /\ cw.sumbtn
    /\ cw.config.xpos # <<>>
    /\ LinesOn("01") = 1 /\ LinesOn("10") = 1
    /\ Len(cw.lines) = 2

\* the panels show the slices through the cell whose axis values are recorded
ShowsRecordedCell ==
    \E i \in 0..(Len(cw.config.xaxis) - 1), j \in 0..(Len(cw.config.yaxis) - 1) :
        /\ cw.config.xpos = <<cw.config.xaxis[i + 1]>>
        /\ cw.config.ypos = <<cw.config.yaxis[j + 1]>>
        /\ cw.ax["01"].lines
             = <<[on |-> "01",
                  xdata |-> [r \in DOMAIN cw.config.z |-> cw.config.z[r][i + 1]],
                  ydata |-> cw.config.yaxis]>>
        /\ cw.ax["10"].lines = <<[on |-> "10", xdata |-> cw.config.xaxis,
                                  ydata |-> cw.config.z[j + 1]]>>

\* C19: in the cross-section mode with panels, once a cell has been clicked
\* the two panels show the slices through the last-clicked cell, also after
\* Sum or the panels were switched off and on again; they are empty only
\* while no cell has ever been clicked
C19_SlicesOfLastClickShown ==
    (cw.crossbtn /\ ~cw.sumbtn)
        => IF cw.config.xpos = <<>>
           THEN LinesOn("01") = 0 /\ LinesOn("10") = 0
           ELSE ShowsRecordedCell

\* C20: the value-axis limits of the panels depend only on the Sum checkbox
\* and the dataset: in sum mode 0 to 1.05 x the largest column sum and the
\* largest row sum, so that switching Sum on, off and on again gives the
\* limits of the first time; in cross-section mode 0 to 1.05 x the largest
\* value of the heatmap, whichever cell is clicked
C20_LimitsOfModeAndData ==
    cw.crossbtn =>
        /\ cw.ax["10"].xlim = <<>> /\ cw.ax["01"].ylim = <<>>
        /\ cw.config.xaxis = <<0, 2, 4, 6, 8>>
              => IF cw.sumbtn
                 THEN cw.ax["10"].ylim = <<0, 1785>> /\ cw.ax["01"].xlim = <<0, 3570>>
                 ELSE cw.ax["10"].ylim = <<0, 945>> /\ cw.ax["01"].xlim = <<0, 945>>
        /\ cw.config.xaxis = <<1, 2>>
              => IF cw.sumbtn
                 THEN cw.ax["10"].ylim = <<0, 525>> /\ cw.ax["01"].xlim = <<0, 630>>
                 ELSE cw.ax["10"].ylim = <<0, 420>> /\ cw.ax["01"].xlim = <<0, 420>>

\* Sum has been switched on again after a cell was clicked in cross-section
\* mode
C20_Witness ==
    /\ ev.kind = "toggle_sum"
    /\ cw.crossbtn /\ cw.sumbtn
    /\ cw.config.xpos # <<>>
    /\ cw.ax["10"].ylim = <<0, 1785>>

----------------------------------------------------------------------------
(* C21 *)

\* C21: after any sequence of events a click handler is connected to the
\* canvas if and only if the auxiliary panels are shown, and never more than
\* one: switching the panels off disconnects it, switching them on connects
\* exactly one
C21_OneHandlerWhilePanelsShown ==
    /\ cw.handlers = IF cw.crossbtn THEN 1 ELSE 0
    /\ cw.crossbtn <=> DOMAIN cw.ax = {"00", "01", "10"}
    /\ cw.handlers > 0 => (cw.connected /\ cw.cid # 0)

\* the panels have been switched on again after a cell was clicked on panels
\* shown before
C21_Witness ==
    /\ ev.kind = "toggle_cross"
    /\ cw.crossbtn
    /\ cw.config.xpos # <<>>
    /\ cw.handlers = 1

----------------------------------------------------------------------------
(* C22 *)

\* C22: an accepted click records the axis values at the located indices as
\* xpos and ypos in the config, and whenever Save Vert or Save Horz is
\* pressed with Sum unchecked such a recorded position exists, so that the
\* file name is built from it
C22_SaveFindsRecordedPosition ==
    [][/\ AcceptedClick =>
             \E i \in 0..(Len(cw.config.xaxis) - 1), j \in 0..(Len(cw.config.yaxis) - 1) :
                /\ IsNearest(cw.config.xaxis, ev'.xdata, i)
                /\ IsNearest(cw.config.yaxis, ev'.ydata, j)
                /\ cw'.config.xpos = <<cw.config.xaxis[i + 1]>>
                /\ cw'.config.ypos = <<cw.config.yaxis[j + 1]>>
       /\ (ev'.kind = "save" /\ ~cw.sumbtn)
             => /\ ev'.err = "none"
                /\ cw.config.xpos # <<>> /\ cw.config.ypos # <<>>
                /\ ev'.savename[3] = IF ev'.inaxes = "01" THEN cw.config.xpos[1]
                                                          ELSE cw.config.ypos[1]]_vars
----------------------------------------------------------------------------
\* C23: when the measurement loop of do1d, do1dDiagonal or do2d was
\* interrupted, the wrapper still ends by returning: the static plot holds
\* one trace per measured parameter, drawn from the data set as it was at
\* the interruption, and was saved as '<default title>.pdf'.
C23_InterruptedStillSaved ==
    (wr.pc \in {"raised", "returned"} /\ wr.interrupted) =>
        /\ wr.pc = "returned"
        /\ Len(traces) = wr.n
        /\ \A i \in DOMAIN traces : SameRoles(traces[i].config, wr.data)
        /\ wr.saved = <<get_default_title(traces), ".pdf">>
----------------------------------------------------------------------------
\* C24: a construction or a clear that is given a figure size which is not
\* a pair ends with an error, and no grid of subplots was made for it: the
\* shape and the figsize of the plot are those it had.
C24_BadFigsizeRejected ==
    [][(last'.op \in {"init", "clear"} /\ last' # last /\ Len(last'.arg.fs) \notin {0, 2})
          => (last'.err # "none" /\ shape' = shape /\ figsize' = figsize)]_vars
----------------------------------------------------------------------------
(* C25 *)

\* where on sp the artists of the given kind drawn for trace i are: pairs of
\* a subplot and a place among its artists
ArtistsOf(sp, i, kind) ==
    {<<k, j>> \in UNION {{k} \X DOMAIN sp[k].artists : k \in DOMAIN sp} :
        sp[k].artists[j].kind = kind /\ sp[k].artists[j].owner = i}

\* the line of trace i is the one artist drawn for it, on the subplot its
\* plot_object names, and spans the x and y data of cfg
LineShows(sp, i, po, cfg) ==
    /\ po.kind = "line"
    /\ Cardinality(ArtistsOf(sp, i, "line")) = 1
    /\ \A p \in ArtistsOf(sp, i, "line") :
          /\ p[1] = po.axes
          /\ sp[p[1]].artists[p[2]].box =
                BoxOfPoints(LineX(cfg), cfg.y.v,
                            {n \in 1..Len(cfg.y.v) : ~LineX(cfg)[n].nan /\ ~cfg.y.v[n].nan})

\* C25: update_plot keeps the length, the order and the configs of the trace
\* registry; after it every mesh trace has at most one mesh on the subplots
\* (the one drawn before was removed), and every line trace has the line
\* object it had, on the same subplot, showing the x and y data of its config.
C25_UpdateKeepsRegistry ==
    [][UpdateStep =>
          /\ Len(traces') = Len(traces)
          /\ \A i \in DOMAIN traces :
                /\ traces'[i].config = traces[i].config
                /\ IF Has(traces[i].config, "z")
                   THEN /\ Cardinality(ArtistsOf(subplots', i, "mesh")) <= 1
                        /\ ArtistsOf(subplots', i, "line") = {}
                   ELSE /\ traces'[i].plot_object = traces[i].plot_object
                        /\ LineShows(subplots', i, traces[i].plot_object, traces[i].config)
                        /\ ArtistsOf(subplots', i, "mesh") = {}]_vars

\* a second update in a row has redrawn a plot that holds a drawn mesh and
\* a line
C25_Witness ==
    /\ last.op = "update"
    /\ last.rep = 2
    /\ last.err = "none"
    /\ \E i \in DOMAIN traces : traces[i].plot_object.kind = "mesh" /\ Cardinality(ArtistsOf(subplots, i, "mesh")) = 1
    /\ \E i \in DOMAIN traces : traces[i].plot_object.kind = "line"
----------------------------------------------------------------------------
(* C26 *)

\* the extents of the artists of one kind on an axes
BoxesOf(ax, kind) ==
    {ax.artists[j].box : j \in {m \in DOMAIN ax.artists : ax.artists[m].kind = kind}}

\* the subplots as the loop over the traces of update_plot leaves them,
\* before the data limits are recomputed
AfterRedraws ==
    UpdateFrom([subplots |-> subplots, traces |-> traces,
                bboxes |-> [k \in DOMAIN subplots |-> {}], err |-> "none"], 1).subplots

----------------------------------------------------------------------------
(* C27 *)

\* out is the reflection of a: a[0] - 0.5 and a[0] + 0.5, then the other
\* entries of a as they are
IsReflection(a, out) ==
    /\ Len(out) = Len(a) + 1
    /\ out[1] = (IF a[1].nan THEN NaN ELSE F(a[1].h - 1))
    /\ out[2] = (IF a[1].nan THEN NaN ELSE F(a[1].h + 1))
    /\ \A i \in 2..Len(a) : out[i + 1] = a[i]

\* C27: the correction of an axis array with a finite sample does not raise,
\* whatever the length of the array, and its result has one entry more than
\* the array; the result is the reflection of the array exactly when the
\* array has fewer than two finite samples.
C27_ReflectionIffFewerThanTwo ==
    (gc_out.err # "pending" /\ FiniteAt(AxisSlice(gc_arr, gc_k)) # {})
        => /\ gc_out.err = "none"
           /\ Len(gc_out.v) = Len(AxisSlice(gc_arr, gc_k)) + 1
           /\ IsReflection(AxisSlice(gc_arr, gc_k), gc_out.v)
                 <=> Cardinality(FiniteAt(AxisSlice(gc_arr, gc_k))) < 2
----------------------------------------------------------------------------
(* C28 *)

\* the mesh drawn last on the axes after, which was before ahead of the
\* draw, is the mesh of cfg: with an x and a y array the view is set to the
\* mesh, which reaches beyond the first sample of both arrays, and the axes
\* no longer autoscales; without one of them the mesh spans one unit cell
\* per value of z, and the axes autoscales, or keeps its view, as before
MeshAsSupplied(before, after, cfg) ==
    IF Has(cfg, "x") /\ Has(cfg, "y")
    THEN /\ ~after.autoscale
         /\ after.view = after.artists[Len(after.artists)].box
         /\ after.view.x0 < AxisSlice(cfg.x, 0)[1].h
         /\ after.view.y0 < AxisSlice(cfg.y, 1)[1].h
    ELSE /\ after.artists[Len(after.artists)].box =
               Box(0, 2 * cfg.z.ncols, 0, 2 * (Len(cfg.z.v) \div cfg.z.ncols))
         /\ after.autoscale = before.autoscale
         /\ after.view = IF before.autoscale THEN after.dataLim ELSE before.view

\* C28: a mesh drawn by an add without an x or without a y array is drawn
\* from the z array alone and no view limits are set; the corrected x and
\* y boundaries are used, and set as view limits, only when both arrays are
\* supplied.
C28_CorrectionOnlyWithCoordinates ==
    [][(AddStep /\ last'.err = "none" /\ Len(traces') = Len(traces) + 1
                /\ traces'[Len(traces')].plot_object.kind = "mesh")
          => MeshAsSupplied(subplots[traces'[Len(traces')].plot_object.axes],
                            subplots'[traces'[Len(traces')].plot_object.axes],
                            traces'[Len(traces')].config)]_vars

\* a mesh of z alone has been added to a subplot that autoscales and holds
\* another trace
C28_Witness ==
    /\ last.op = "add"
    /\ last.err = "none"
    /\ Len(traces) = 2
    /\ traces[2].plot_object.kind = "mesh"
    /\ ~Has(traces[2].config, "x")
    /\ ~Has(traces[2].config, "y")
    /\ subplots[traces[2].plot_object.axes].autoscale
----------------------------------------------------------------------------
(* C29 *)

\* C29: the add helper of the subplot at index k of the flat grid carries
\* the subplot number k + 1, and a registered trace whose config has subplot
\* number s was drawn on, and after every update is drawn on, the subplot
\* at index s - 1 and on no other.
C29_HelperAddsToItsSubplot ==
    /\ \A k \in 0..(Len(subplots) - 1) : subplots[k + 1].add_subplot = k + 1
    /\ \A i \in DOMAIN traces :
          (traces[i].config.subplot # <<>> /\ traces[i].plot_object # NotDrawn)
             => /\ traces[i].plot_object.axes - 1 = traces[i].config.subplot[1] - 1
                /\ {p[1] - 1 : p \in ArtistsOf(subplots, i, traces[i].plot_object.kind)}
                      = {traces[i].config.subplot[1] - 1}

\* an update has redrawn a mesh that was added through the helper of the
\* last subplot of a grid of two rows
C29_Witness ==
    /\ last.op = "update"
    /\ last.err = "none"
    /\ shape = <<2, 3>>
    /\ \E i \in DOMAIN traces :
          /\ traces[i].config.subplot = <<6>>
          /\ traces[i].plot_object.kind = "mesh"
          /\ ArtistsOf(subplots, i, "mesh") # {}
----------------------------------------------------------------------------
\* C30: remove() is called at most once on each annotation cursor: no
\* toggle of 'Cross section' or 'Sum' and no click calls it on a cursor that
\* an earlier remove_plots has removed.
C30_CursorRemovedOnce == cw.datacursor # "removed again"
----------------------------------------------------------------------------
\* C31: show_num called while CURRENT_EXPERIMENT has no 'init' entry raises
\* RuntimeError and loads nothing; called after an init it loads the data
\* from the folder of the experiment.
C31_ShowNumNeedsInit ==
    [][(wr'.op = "show_num" /\ wr' # wr) =>
          IF wr.init
          THEN wr'.loaded[1] = wr.exp_folder
          ELSE wr'.err = "RuntimeError" /\ wr'.loaded = wr.loaded]_vars

\* C32: over every sequence of init calls %logstart is issued at most once:
\* the first init that reaches the logging step issues it and sets
\* logging_enabled, a later init issues none, and logging_enabled never goes
\* back to False.
C32_LogStartedOnce ==
    [][/\ wr'.logstarts <= 1
       /\ wr'.logging_enabled = (wr'.logstarts = 1)
       /\ wr.logging_enabled => (wr'.logging_enabled /\ wr'.logstarts = wr.logstarts)
       /\ wr'.inits > wr.inits => (wr'.logging_enabled /\ wr'.logstarts = 1)]_vars

\* as many inits as the session makes have reached the logging step, and
\* the log was started by the first of them
C32_Witness ==
    /\ wr.op = "init"
    /\ wr.err = "none"
    /\ wr.inits = MaxInits
    /\ wr.logstarts = 1
    /\ wr.logging_enabled
====
